---------------------------- MODULE Spec2Model ----------------------------
(***************************************************************************)
(* Challenge solving in the Silica wallet: ChallengeService (Argon2id      *)
(* proof of work, challenge.service.ts) and NuwChallengeService (network   *)
(* utility work, nuw-challenge.service.ts).                                *)
(*                                                                         *)
(* Conventions.  A hex string is a sequence of characters, a character     *)
(* being 0..15 (a hex digit) or NonHex (any other character).  A byte      *)
(* array is a sequence of 0..255.  An optional value is a sequence of      *)
(* length 0 (absent) or 1 (present).                                       *)
(***************************************************************************)
EXTENDS Integers, Sequences, FiniteSets, TLC

VARIABLES
    \* the environment
    now,          \* Math.floor(Date.now() / 1000)
    hashOracle,   \* argon2id on this challenge: counter -> index of HashSamples, 0 = it throws
    subtle,       \* crypto.subtle for Ed25519: "ok", "unsupported" or "verify_throws"
    \* one call of solveChallenge
    svc,          \* "pow" = ChallengeService, "nuw" = NuwChallengeService
    challenge,    \* the TransactionChallenge argument (svc = "pow")
    nuwChallenge, \* the NuwChallenge argument (svc = "nuw")
    maxAttempts,  \* the maxAttempts argument (svc = "pow")
    pc,           \* position of the call: "call", "loop", "hashing", "yielding", "sigloop",
                  \* "sigverifying", "sigyielding", "merkleloop", "merkleverifying", "done"
    entryNow,     \* the local constant now, None before the call reads the clock
    salt,         \* the local salt
    counter,      \* the loop variable counter
    attempts,     \* number of argon2id invocations so far
    yields,       \* number of yieldToUI invocations so far
    sinceYield,   \* number of argon2id invocations since the last yieldToUI (or the start)
    verifs,       \* number of verifySignature and verifyMerkleProof invocations so far
    idx,          \* position of the for-of loop in the batch or task list (0-based)
    results,      \* the local results
    outcome,      \* "none", "solution", or the code of the error thrown
    solved,       \* the SolvedChallenge returned (optional)
    nuwSolved,    \* the NuwSolution returned (optional)
    solves,       \* number of solveChallenge calls started so far
    \* getSolvedChallenge
    mode,         \* "solve" = solveChallenge called directly, "getSolved" = through getSolvedChallenge
    rpc,          \* how RpcService.call ends: "ok", "network_error", "rejected"
    response,     \* the result RpcService.call returns when it ends "ok"
    fetches,      \* number of RpcService.call invocations so far
    \* one call of hasLeadingZeros
    hlzHash,      \* argument hash of hasLeadingZeros (byte array)
    hlzBits,      \* argument requiredBits of hasLeadingZeros
    hlzRes,       \* <<>> before the call, <<ChallengeService's result, NuwChallengeService's result>> after
    \* one call of verifyMerkleProof
    mkTask,       \* the arguments, as a MerkleProofTask
    mkRes,        \* <<>> before the call, then <<[threw, valid]>>
    \* WasmService and the calls of getAvailableTypes
    wasmModule,   \* WasmService.wasmModule: "null" or "loaded"
    wasmStatus,   \* what statusSubject holds: "initializing", "initialized" or "failed"
    typeCalls,    \* the calls of getAvailableTypes so far: what isReady did and the result
    \* one call of RpcService.call
    rpcIn,        \* what http.post with timeout does for the request
    rpcOut,       \* <<>> before the call settles, then <<what call returned or threw>>
    \* one call of TransactionService.sendTransaction
    txPc,         \* "none", "awaitChallenge", "sending", "done"
    sendIn,       \* what http.post does for the send_transaction request
    sends,        \* number of send_transaction requests issued so far
    sentChallenge, \* the challenge member of the last send_transaction request (optional)
    txOutcome,    \* what sendTransaction returned or threw
    \* several calls of solveChallenge
    firstRun,     \* how the first call on this challenge ended (optional)
    parked,       \* the other call, suspended at an await (optional)
    \* module state
    feeDiscounts  \* the object NUW_FEE_DISCOUNTS

envVars == <<now, hashOracle, subtle>>

\* what a call of solveChallenge never assigns
argVars == <<svc, challenge, nuwChallenge, maxAttempts>>

\* what only NuwChallengeService's batch loops assign
batchVars == <<verifs, idx, results, nuwSolved>>

callVars == <<argVars, pc, entryNow, salt, counter, attempts, yields, sinceYield, outcome, solved,
              batchVars, solves>>

\* what only getSolvedChallenge reads or assigns
fetchVars == <<mode, rpc, response, fetches>>

\* the calls of the pure helpers
bitsVars == <<hlzHash, hlzBits, hlzRes, mkTask, mkRes>>

\* what only WasmService and getAvailableTypes assign
capVars == <<wasmModule, wasmStatus, typeCalls>>

\* what neither a solver nor getAvailableTypes assigns
rpcVars == <<rpcIn, rpcOut>>

\* what only sendTransaction assigns
txVars == <<txPc, sendIn, sends, sentChallenge, txOutcome>>

\* what only a second call of solveChallenge assigns
concVars == <<firstRun, parked>>

otherVars == <<feeDiscounts, rpcVars, txVars, concVars>>

vars == <<envVars, callVars, bitsVars, fetchVars, capVars, otherVars>>

-----------------------------------------------------------------------------
(* Options *)

None == <<>>

Some(v) == <<v>>

IsSome(o) == Len(o) > 0

Get(o) == o[1]

\* a sequence given by its elements, as an explicit tuple
Array(f) == SubSeq(f, 1, Len(f))

-----------------------------------------------------------------------------
(* Program constants *)

DEFAULT_HASH_LENGTH == 32

NonHex == 16

\* the clock runs from 0 to MaxNow
MaxNow == 2

-----------------------------------------------------------------------------
(* JavaScript integer operators on the non-negative values the code uses *)

RECURSIVE Pow2(_)
Pow2(k) == IF k = 0 THEN 1 ELSE 2 * Pow2(k - 1)

\* x << k, for results below 2^31
ShiftLeft(x, k) == x * Pow2(k)

RECURSIVE BitAnd(_, _)
BitAnd(a, b) ==
    IF a = 0 \/ b = 0 THEN 0
    ELSE (a % 2) * (b % 2) + 2 * BitAnd(a \div 2, b \div 2)

\* hash[i] of a Uint8Array, 0-based; out of range is undefined (None)
ByteAt(bytes, i) == IF i >= 0 /\ i < Len(bytes) THEN Some(bytes[i + 1]) ELSE None

-----------------------------------------------------------------------------
(* ChallengeService.hasLeadingZeros *)

RECURSIVE FullBytesZero(_, _, _)
\* the loop "for (i = 0; i < fullBytes; i++) if (hash[i] !== 0) return false":
\* TRUE iff it runs to the end; undefined !== 0 holds
FullBytesZero(hash, i, fullBytes) ==
    IF i >= fullBytes THEN TRUE
    ELSE IF ByteAt(hash, i) # Some(0) THEN FALSE
    ELSE FullBytesZero(hash, i + 1, fullBytes)

\* the test without its remaining-bits part
hasLeadingZeros_bytesOnly(hash, requiredBits) ==
    FullBytesZero(hash, 0, requiredBits \div 8)

\* the test with the mask 0xFF >> (8 - remainingBits), the low bits of the byte
hasLeadingZeros_lowMask(hash, requiredBits) ==
    LET fullBytes     == requiredBits \div 8
        remainingBits == requiredBits % 8
    IN  IF ~FullBytesZero(hash, 0, fullBytes) THEN FALSE
        ELSE IF remainingBits > 0 /\ fullBytes < Len(hash)
                /\ BitAnd(hash[fullBytes + 1], Pow2(remainingBits) - 1) # 0
             THEN FALSE
        ELSE TRUE

hasLeadingZeros(hash, requiredBits) ==
    LET fullBytes     == requiredBits \div 8
        remainingBits == requiredBits % 8
    IN  IF ~FullBytesZero(hash, 0, fullBytes) THEN FALSE
        ELSE IF remainingBits > 0 /\ fullBytes < Len(hash)
                /\ BitAnd(hash[fullBytes + 1], ShiftLeft(255, 8 - remainingBits)) # 0
             THEN FALSE
        ELSE TRUE

(* NuwChallengeService.hasLeadingZeros *)

RECURSIVE nuw_FullBytesZero(_, _, _)
nuw_FullBytesZero(hash, i, fullBytes) ==
    IF i >= fullBytes THEN TRUE
    ELSE IF ByteAt(hash, i) # Some(0) THEN FALSE
    ELSE nuw_FullBytesZero(hash, i + 1, fullBytes)

nuw_hasLeadingZeros(hash, requiredBits) ==
    LET fullBytes     == requiredBits \div 8
        remainingBits == requiredBits % 8
    IN  IF ~nuw_FullBytesZero(hash, 0, fullBytes) THEN FALSE
        ELSE IF remainingBits > 0 /\ fullBytes < Len(hash)
                /\ BitAnd(hash[fullBytes + 1], ShiftLeft(255, 8 - remainingBits)) # 0
             THEN FALSE
        ELSE TRUE

-----------------------------------------------------------------------------
(* ChallengeService: codec helpers *)

\* parseInt(two characters, 16) stored into a Uint8Array: NaN is stored as 0,
\* and parseInt reads the longest prefix of hex digits
parseInt16(c1, c2) ==
    IF c1 = NonHex THEN 0
    ELSE IF c2 = NonHex THEN c1
    ELSE 16 * c1 + c2

\* new Uint8Array(hex.length / 2) truncates a fractional length
hexToBytes(hex) ==
    Array([i \in 1..(Len(hex) \div 2) |-> parseInt16(hex[2 * i - 1], hex[2 * i])])

\* b.toString(16).padStart(2, '0') for each byte, joined
bytesToHex(bytes) ==
    Array([k \in 1..(2 * Len(bytes)) |->
            IF k % 2 = 1 THEN bytes[(k + 1) \div 2] \div 16 ELSE bytes[k \div 2] % 16])

RECURSIVE DivPow256(_, _)
DivPow256(n, k) == IF k = 0 THEN n ELSE DivPow256(n \div 256, k - 1)

\* new Uint8Array(8) filled by DataView.setBigUint64(0, BigInt(counter), false)
setBigUint64BE(n) == Array([i \in 1..8 |-> DivPow256(n, 8 - i) % 256])

RECURSIVE BigEndianPrefix(_, _)
\* the number the first n bytes of a big-endian byte array encode
BigEndianPrefix(bytes, n) ==
    IF n = 0 THEN 0 ELSE 256 * BigEndianPrefix(bytes, n - 1) + bytes[n]

\* the number a big-endian byte array encodes
BigEndianValue(bytes) == BigEndianPrefix(bytes, Len(bytes))

-----------------------------------------------------------------------------
(* The hash primitive argon2id of hash-wasm, for the salt and cost parameters *)
(* of the challenge at hand: a function of the password alone                *)

\* a digest with no leading zero bit: 80 00 00 ...
HashHexNoZero == [i \in 1..(2 * DEFAULT_HASH_LENGTH) |-> IF i = 1 THEN 8 ELSE 0]

\* a digest with exactly 12 leading zero bits: 00 0f ff ...
HashHex12 == [i \in 1..(2 * DEFAULT_HASH_LENGTH) |-> IF i <= 3 THEN 0 ELSE 15]

HashSamples == <<HashHexNoZero, HashHex12>>

\* 0 = the primitive throws, k > 0 = it returns HashSamples[k]
argon2idOutcome(password) == hashOracle[(BigEndianValue(password) % Len(hashOracle)) + 1]

argon2idThrows(password) == argon2idOutcome(password) = 0

argon2id(password) == HashSamples[argon2idOutcome(password)]

-----------------------------------------------------------------------------
(* ChallengeService.solveChallenge *)

\* the clock at the moment a call that was suspended settles: any time later than
\* the last reading; the code reads the clock on entry only
Elapsed == now' \in (IF pc' = "done" THEN now..MaxNow ELSE {now})

Throw(code) ==
    /\ pc' = "done"
    /\ outcome' = code

\* if (challenge.expires_at < now)
isExpired(c, t) == c.expires_at < t

\* if (salt.length !== 32)
badSaltLength(s) == Len(s) # 32

\* a counter that goes on from where the last search stopped
firstCounter_kept == counter

\* for (let counter = 0; ...
firstCounter == 0

\* the loop test with <= for <
loopContinues_inclusive(c, max) == c <= max

\* ...; counter < maxAttempts; ...
loopContinues(c, max) == c < max

\* a catch clause that reports the kind of an exhausted search
caughtCode_solveFailed == "SOLVE_FAILED"

\* the code of the ChallengeError thrown by the catch clause
caughtCode == "WASM_FAILED"

\* counter % 10 === 0 && counter > 0
yieldDue(c) == c % 10 = 0 /\ c > 0

solveChallenge_enter ==
    /\ svc = "pow" /\ pc = "call"
    /\ entryNow' = Some(now)
    /\ IF isExpired(challenge, now)
       THEN Throw("EXPIRED") /\ UNCHANGED <<salt, counter>>
       ELSE /\ salt' = hexToBytes(challenge.nonce)
            /\ IF badSaltLength(salt')
               THEN Throw("INVALID") /\ UNCHANGED counter
               ELSE pc' = "loop" /\ counter' = firstCounter /\ UNCHANGED outcome
    /\ UNCHANGED <<envVars, argVars, attempts, yields, sinceYield, solved, batchVars, bitsVars, fetchVars, capVars, otherVars>>
    /\ solves' = solves + 1

\* the loop test; inside the loop the call of argon2id, which suspends solveChallenge
solveChallenge_loop ==
    /\ svc = "pow" /\ pc = "loop"
    /\ IF loopContinues(counter, maxAttempts)
       THEN pc' = "hashing" /\ attempts' = attempts + 1 /\ sinceYield' = sinceYield + 1 /\ UNCHANGED outcome
       ELSE Throw("SOLVE_FAILED") /\ UNCHANGED <<attempts, sinceYield>>
    /\ Elapsed
    /\ UNCHANGED <<hashOracle, subtle, argVars, entryNow, salt, counter, yields, solved, batchVars,
                   bitsVars, fetchVars, capVars, otherVars, solves>>

\* argon2id settles: the rest of the loop body and the catch clause
solveChallenge_hashed ==
    /\ svc = "pow" /\ pc = "hashing"
    /\ \E counterBytes \in {setBigUint64BE(counter)} :
       IF argon2idThrows(counterBytes)
       THEN Throw(caughtCode) /\ UNCHANGED <<counter, yields, sinceYield, solved>>
       ELSE \E hashHex \in {argon2id(counterBytes)} :
            \E hash \in {hexToBytes(hashHex)} :
                IF hasLeadingZeros(hash, challenge.difficulty)
                THEN /\ pc' = "done" /\ outcome' = "solution"
                     /\ solved' = Some([challenge_id |-> challenge.challenge_id,
                                        solution     |-> bytesToHex(counterBytes),
                                        hash         |-> hashHex])
                     /\ UNCHANGED <<counter, yields, sinceYield>>
                ELSE IF yieldDue(counter)
                THEN /\ pc' = "yielding" /\ yields' = yields + 1 /\ sinceYield' = 0
                     /\ UNCHANGED <<counter, outcome, solved>>
                ELSE /\ pc' = "loop" /\ counter' = counter + 1
                     /\ UNCHANGED <<yields, sinceYield, outcome, solved>>
    /\ Elapsed
    /\ UNCHANGED <<hashOracle, subtle, argVars, entryNow, salt, attempts, batchVars, bitsVars, fetchVars, capVars, otherVars, solves>>

\* the timer of yieldToUI fires: counter++ and back to the loop test
solveChallenge_resumed ==
    /\ svc = "pow" /\ pc = "yielding"
    /\ pc' = "loop" /\ counter' = counter + 1
    /\ UNCHANGED <<envVars, argVars, entryNow, salt, attempts, yields, sinceYield, outcome, solved,
                   batchVars, bitsVars, fetchVars, capVars, otherVars, solves>>

-----------------------------------------------------------------------------
(* NuwChallengeService: codec helpers (its own copies) *)

\* a value that is not a string (undefined, null): reading its length throws
Undefined == <<-1>>

nuw_hexToBytesThrows(hex) == hex = Undefined

\* the bytes written out last byte first
nuw_bytesToHex_reversed(bytes) == bytesToHex([i \in 1..Len(bytes) |-> bytes[Len(bytes) + 1 - i]])

nuw_hexToBytes(hex) ==
    Array([i \in 1..(Len(hex) \div 2) |-> parseInt16(hex[2 * i - 1], hex[2 * i])])

nuw_bytesToHex(bytes) ==
    Array([k \in 1..(2 * Len(bytes)) |->
            IF k % 2 = 1 THEN bytes[(k + 1) \div 2] \div 16 ELSE bytes[k \div 2] % 16])

-----------------------------------------------------------------------------
(* NuwChallengeService.verifySignature, over crypto.subtle *)

ED25519_KEY_LENGTH == 32

KeyA == [i \in 1..ED25519_KEY_LENGTH |-> 10]

MsgA == <<1, 2, 3>>

SigA == [i \in 1..(2 * ED25519_KEY_LENGTH) |-> 7]

\* the (publicKey, signature, message) triples that Ed25519 accepts
ValidSignatures == {<<KeyA, SigA, MsgA>>}

\* crypto.subtle.importKey('raw', keyData, {name: 'Ed25519'}, ...) rejects
importKeyThrows(keyData) == subtle = "unsupported" \/ Len(keyData) # ED25519_KEY_LENGTH

\* crypto.subtle.verify('Ed25519', key, sigData, msgData) rejects
subtleVerifyThrows == subtle = "verify_throws"

subtleVerify(keyData, sigData, msgData) == <<keyData, sigData, msgData>> \in ValidSignatures

\* verification that takes every algorithm down the Ed25519 branch
verifySignature_anyAlgorithm(message, signature, publicKey, algorithm) ==
    IF importKeyThrows(publicKey) \/ subtleVerifyThrows
    THEN FALSE
    ELSE subtleVerify(publicKey, signature, message)

verifySignature(message, signature, publicKey, algorithm) ==
    IF algorithm = "ed25519"
    THEN IF importKeyThrows(publicKey) \/ subtleVerifyThrows
         THEN FALSE
         ELSE subtleVerify(publicKey, signature, message)
    ELSE FALSE

-----------------------------------------------------------------------------
(* NuwChallengeService.verifyMerkleProof *)

\* four bytes of data, from 0-based offset 4 * w, as one number
Word(data, w) ==
    data[4 * w + 1] + 3 * data[4 * w + 2] + 5 * data[4 * w + 3] + 7 * data[4 * w + 4] + 1

RECURSIVE Absorb(_, _)
\* the first n words of data, folded into one number
Absorb(data, n) ==
    IF n = 0 THEN 7
    ELSE (Absorb(data, n - 1) * 31 + Word(data, n - 1)) % 65521

\* crypto.subtle.digest('SHA-256', data) for the 64-byte buffer combined: a
\* deterministic stand-in with a 32-byte result that depends on every byte of
\* data and on their order
sha256(data) ==
    CHOOSE digest \in {Array([j \in 1..32 |-> ((a \div j) + a * j + j) % 256]) :
                          a \in {Absorb(data, Len(data) \div 4)}} : TRUE

RECURSIVE ShiftRight(_, _)
ShiftRight(x, k) == IF k = 0 THEN x ELSE ShiftRight(x \div 2, k - 1)

\* (index >> i) & 1 for 0 <= index < 2^31: the shift count is taken modulo 32
isRightBit(index, i) == ShiftRight(index, i % 32) % 2

\* TypedArray.prototype.set(source, offset) throws RangeError
setThrows(target, source, offset) == Len(source) + offset > Len(target)

uint8ArraySet(target, source, offset) ==
    Array([k \in 1..Len(target) |->
            IF k > offset /\ k <= offset + Len(source) THEN source[k - offset] ELSE target[k]])

newUint8Array(n) == Array([k \in 1..n |-> 0])

\* one round of the loop: None when a set throws, else the next current
merkleStep(current, sibling, isRight) ==
    LET first  == IF isRight = 1 THEN sibling ELSE current
        second == IF isRight = 1 THEN current ELSE sibling
        empty  == newUint8Array(64)
    IN  IF setThrows(empty, first, 0) \/ setThrows(empty, second, 32)
        THEN None
        ELSE Some(sha256(uint8ArraySet(uint8ArraySet(empty, first, 0), second, 32)))

RECURSIVE merkleFold(_, _, _, _)
\* the loop from step i on: None when it throws, else the final current
merkleFold(current, proofHex, index, i) ==
    IF i >= Len(proofHex) THEN Some(current)
    ELSE LET next == merkleStep(current, nuw_hexToBytes(proofHex[i + 1]), isRightBit(index, i))
         IN  IF IsSome(next) THEN merkleFold(Get(next), proofHex, index, i + 1) ELSE None

verifyMerkleProofThrows(rootHex, leafHex, proofHex, index) ==
    ~IsSome(merkleFold(nuw_hexToBytes(leafHex), proofHex, index, 0))

\* the value returned when nothing throws
verifyMerkleProof(rootHex, leafHex, proofHex, index) ==
    LET root    == nuw_hexToBytes(rootHex)
        current == Get(merkleFold(nuw_hexToBytes(leafHex), proofHex, index, 0))
    IN  IF Len(current) # Len(root) THEN FALSE
        ELSE \A k \in 1..Len(current) : current[k] = root[k]

-----------------------------------------------------------------------------
(* NuwChallengeService.solveChallenge and the solvers it dispatches to *)

\* a table with no discount for signature batches
NUW_FEE_DISCOUNTS_flat ==
    [t \in {"argon2_pow", "signature_batch", "zk_verify", "pq_assist", "merkle_verify"} |-> 0]

\* fee discount tiers
NUW_FEE_DISCOUNTS ==
    [t \in {"argon2_pow", "signature_batch", "zk_verify", "pq_assist", "merkle_verify"} |->
        CASE t = "argon2_pow"      -> 0
          [] t = "signature_batch" -> 25
          [] t = "zk_verify"       -> 50
          [] t = "pq_assist"       -> 40
          [] t = "merkle_verify"   -> 30]

NUW_MAX_ATTEMPTS == 10000

\* if (challenge.expires_at < now)
nuw_isExpired(c, t) == c.expires_at < t

\* the switch without its PQ_ASSIST case
solverFor_pqUnsupported(type) ==
    CASE type = "argon2_pow"      -> "solveArgon2"
      [] type = "signature_batch" -> "solveSignatureBatch"
      [] type = "zk_verify"       -> "solveZkVerify"
      [] type = "merkle_verify"   -> "solveMerkleVerify"
      [] OTHER                    -> "default"

\* the switch with the ZK_VERIFY case returning solveMerkleVerify
solverFor_zkAsMerkle(type) ==
    CASE type = "argon2_pow"      -> "solveArgon2"
      [] type = "signature_batch" -> "solveSignatureBatch"
      [] type = "zk_verify"       -> "solveMerkleVerify"
      [] type = "merkle_verify"   -> "solveMerkleVerify"
      [] type = "pq_assist"       -> "solveArgon2"
      [] OTHER                    -> "default"

\* the switch on challenge.challenge_type
solverFor(type) ==
    CASE type = "argon2_pow"      -> "solveArgon2"
      [] type = "signature_batch" -> "solveSignatureBatch"
      [] type = "zk_verify"       -> "solveZkVerify"
      [] type = "merkle_verify"   -> "solveMerkleVerify"
      [] type = "pq_assist"       -> "solveArgon2"
      [] OTHER                    -> "default"

\* if (!challenge.argon2_params)
missingArgon2(c) == ~IsSome(c.argon2_params)

\* the test without its length clause
missingBatch_absentOnly(c) == ~IsSome(c.signature_batch)

\* if (!challenge.signature_batch || challenge.signature_batch.length === 0)
missingBatch(c) == ~IsSome(c.signature_batch) \/ Len(Get(c.signature_batch)) = 0

\* if (!challenge.zk_proof)
missingZk(c) == ~IsSome(c.zk_proof)

\* if (!challenge.merkle_proofs || challenge.merkle_proofs.length === 0)
missingMerkle(c) == ~IsSome(c.merkle_proofs) \/ Len(Get(c.merkle_proofs)) = 0

\* counter % 10 === 0
nuw_yieldDue(c) == c % 10 = 0

\* a zk_result that looks at the proof: an empty proof is not valid
zkResult_checked(proof) == [proof_id |-> proof.proof_id, valid |-> Len(proof.proof) > 0]

\* the zk_result of solveZkVerify: no verification, valid: true
zkResult(proof) == [proof_id |-> proof.proof_id, valid |-> TRUE]

\* a solution whose challenge_id is filled from the type
NuwSolution_idFromType(type, argon2, sigs, zk, merkle) ==
    [challenge_id      |-> type,
     challenge_type    |-> type,
     argon2_solution   |-> argon2,
     signature_results |-> sigs,
     zk_result         |-> zk,
     merkle_results    |-> merkle]

NuwSolution(type, argon2, sigs, zk, merkle) ==
    [challenge_id      |-> nuwChallenge.challenge_id,
     challenge_type    |-> type,
     argon2_solution   |-> argon2,
     signature_results |-> sigs,
     zk_result         |-> zk,
     merkle_results    |-> merkle]

Return(solution) ==
    /\ pc' = "done"
    /\ outcome' = "solution"
    /\ nuwSolved' = Some(solution)

\* solveChallenge up to the first suspension of the solver it calls
nuw_solveChallenge_enter ==
    /\ svc = "nuw" /\ pc = "call"
    /\ entryNow' = Some(now)
    /\ LET c == nuwChallenge
           solver == solverFor(c.challenge_type)
       IN
       IF nuw_isExpired(c, now)
       THEN Throw("EXPIRED") /\ UNCHANGED <<salt, counter, nuwSolved>>
       ELSE CASE solver = "solveArgon2" ->
                   IF missingArgon2(c)
                   THEN Throw("INVALID") /\ UNCHANGED <<salt, counter, nuwSolved>>
                   ELSE /\ salt' = nuw_hexToBytes(Get(c.argon2_params).nonce)
                        /\ pc' = "loop" /\ counter' = 0
                        /\ UNCHANGED <<outcome, nuwSolved>>
              [] solver = "solveSignatureBatch" ->
                   IF missingBatch(c)
                   THEN Throw("INVALID") /\ UNCHANGED <<salt, counter, nuwSolved>>
                   ELSE pc' = "sigloop" /\ UNCHANGED <<salt, counter, outcome, nuwSolved>>
              [] solver = "solveZkVerify" ->
                   IF missingZk(c)
                   THEN Throw("INVALID") /\ UNCHANGED <<salt, counter, nuwSolved>>
                   ELSE /\ Return(NuwSolution("zk_verify", None, None,
                                   Some(zkResult(Get(c.zk_proof))), None))
                        /\ UNCHANGED <<salt, counter>>
              [] solver = "solveMerkleVerify" ->
                   IF missingMerkle(c)
                   THEN Throw("INVALID") /\ UNCHANGED <<salt, counter, nuwSolved>>
                   ELSE pc' = "merkleloop" /\ UNCHANGED <<salt, counter, outcome, nuwSolved>>
              [] OTHER ->
                   Throw("UNSUPPORTED_TYPE") /\ UNCHANGED <<salt, counter, nuwSolved>>
    /\ UNCHANGED <<envVars, argVars, attempts, yields, sinceYield, solved, verifs, idx, results, bitsVars, fetchVars, capVars, otherVars>>
    /\ solves' = solves + 1

(* solveArgon2 *)

solveArgon2_loop ==
    /\ svc = "nuw" /\ pc = "loop"
    /\ IF counter < NUW_MAX_ATTEMPTS
       THEN pc' = "hashing" /\ attempts' = attempts + 1 /\ sinceYield' = sinceYield + 1 /\ UNCHANGED outcome
       ELSE Throw("SOLVE_FAILED") /\ UNCHANGED <<attempts, sinceYield>>
    /\ Elapsed
    /\ UNCHANGED <<hashOracle, subtle, argVars, entryNow, salt, counter, yields, solved, batchVars,
                   bitsVars, fetchVars, capVars, otherVars, solves>>

solveArgon2_hashed ==
    /\ svc = "nuw" /\ pc = "hashing"
    /\ LET counterBytes == setBigUint64BE(counter) IN
       IF argon2idThrows(counterBytes)
       THEN Throw("SOLVE_FAILED") /\ UNCHANGED <<counter, yields, sinceYield, nuwSolved>>
       ELSE LET hashHex == argon2id(counterBytes)
                hash    == nuw_hexToBytes(hashHex)
            IN  IF nuw_hasLeadingZeros(hash, Get(nuwChallenge.argon2_params).difficulty)
                THEN /\ Return(NuwSolution("argon2_pow", Some(nuw_bytesToHex(counterBytes)),
                                           None, None, None))
                     /\ UNCHANGED <<counter, yields, sinceYield>>
                ELSE IF nuw_yieldDue(counter)
                THEN /\ pc' = "yielding" /\ yields' = yields + 1 /\ sinceYield' = 0
                     /\ UNCHANGED <<counter, outcome, nuwSolved>>
                ELSE /\ pc' = "loop" /\ counter' = counter + 1
                     /\ UNCHANGED <<yields, sinceYield, outcome, nuwSolved>>
    /\ Elapsed
    /\ UNCHANGED <<hashOracle, subtle, argVars, entryNow, salt, attempts, solved, verifs, idx, results,
                   bitsVars, fetchVars, capVars, otherVars, solves>>

solveArgon2_resumed ==
    /\ svc = "nuw" /\ pc = "yielding"
    /\ pc' = "loop" /\ counter' = counter + 1
    /\ UNCHANGED <<envVars, argVars, entryNow, salt, attempts, yields, sinceYield, outcome, solved,
                   batchVars, bitsVars, fetchVars, capVars, otherVars, solves>>

(* solveSignatureBatch *)

\* the body of the try block for one item: TRUE when it throws before verifySignature
sigDecodeThrows(sig) ==
    \/ nuw_hexToBytesThrows(sig.message)
    \/ nuw_hexToBytesThrows(sig.signature)
    \/ nuw_hexToBytesThrows(sig.public_key)

sigValid(sig) ==
    verifySignature(nuw_hexToBytes(sig.message), nuw_hexToBytes(sig.signature),
                    nuw_hexToBytes(sig.public_key), sig.algorithm)

\* a catch clause that records the item as valid
caughtResult_valid(sig) == [tx_id |-> sig.tx_id, valid |-> TRUE]

\* the catch clause for one item
caughtResult(sig) == [tx_id |-> sig.tx_id, valid |-> FALSE]

\* the for-of test; the decoding of the item; the call of verifySignature, which
\* suspends, or the catch clause and the call of yieldToUI, which suspends
solveSignatureBatch_loop ==
    /\ svc = "nuw" /\ pc = "sigloop"
    /\ LET batch == Get(nuwChallenge.signature_batch) IN
       IF idx < Len(batch)
       THEN LET sig == batch[idx + 1] IN
            IF sigDecodeThrows(sig)
            THEN /\ results' = Append(results, caughtResult(sig))
                 /\ pc' = "sigyielding" /\ yields' = yields + 1 /\ sinceYield' = 0
                 /\ UNCHANGED <<verifs, outcome, nuwSolved>>
            ELSE /\ pc' = "sigverifying" /\ verifs' = verifs + 1
                 /\ UNCHANGED <<results, yields, sinceYield, outcome, nuwSolved>>
       ELSE /\ Return(NuwSolution("signature_batch", None, Some(results), None, None))
            /\ UNCHANGED <<results, yields, sinceYield, verifs>>
    /\ Elapsed
    /\ UNCHANGED <<hashOracle, subtle, argVars, entryNow, salt, counter, attempts, solved, idx, bitsVars, fetchVars, capVars, otherVars, solves>>

\* verifySignature settles: the result is pushed and yieldToUI suspends
solveSignatureBatch_verified ==
    /\ svc = "nuw" /\ pc = "sigverifying"
    /\ LET sig == Get(nuwChallenge.signature_batch)[idx + 1] IN
       results' = Append(results, [tx_id |-> sig.tx_id, valid |-> sigValid(sig)])
    /\ pc' = "sigyielding" /\ yields' = yields + 1 /\ sinceYield' = 0
    /\ Elapsed
    /\ UNCHANGED <<hashOracle, subtle, argVars, entryNow, salt, counter, attempts, outcome, solved,
                   verifs, idx, nuwSolved, bitsVars, fetchVars, capVars, otherVars, solves>>

solveSignatureBatch_resumed ==
    /\ svc = "nuw" /\ pc = "sigyielding"
    /\ pc' = "sigloop" /\ idx' = idx + 1
    /\ UNCHANGED <<envVars, argVars, entryNow, salt, counter, attempts, yields, sinceYield, outcome,
                   solved, verifs, results, nuwSolved, bitsVars, fetchVars, capVars, otherVars, solves>>

(* solveMerkleVerify *)

\* the for-of test and the call of verifyMerkleProof, which suspends
solveMerkleVerify_loop ==
    /\ svc = "nuw" /\ pc = "merkleloop"
    /\ IF idx < Len(Get(nuwChallenge.merkle_proofs))
       THEN pc' = "merkleverifying" /\ verifs' = verifs + 1
            /\ UNCHANGED <<outcome, nuwSolved>>
       ELSE Return(NuwSolution("merkle_verify", None, None, None, Some(results)))
            /\ UNCHANGED verifs
    /\ Elapsed
    /\ UNCHANGED <<hashOracle, subtle, argVars, entryNow, salt, counter, attempts, yields, sinceYield, solved,
                   idx, results, bitsVars, fetchVars, capVars, otherVars, solves>>

\* verifyMerkleProof settles: its exception leaves solveChallenge as it is
solveMerkleVerify_verified ==
    /\ svc = "nuw" /\ pc = "merkleverifying"
    /\ LET proof == Get(nuwChallenge.merkle_proofs)[idx + 1] IN
       IF verifyMerkleProofThrows(proof.root, proof.leaf, proof.proof, proof.index)
       THEN Throw("RangeError") /\ UNCHANGED <<idx, results>>
       ELSE /\ results' = Append(results,
                   [index |-> proof.index,
                    valid |-> verifyMerkleProof(proof.root, proof.leaf, proof.proof,
                                                proof.index)])
            /\ idx' = idx + 1 /\ pc' = "merkleloop" /\ UNCHANGED outcome
    /\ Elapsed
    /\ UNCHANGED <<hashOracle, subtle, argVars, entryNow, salt, counter, attempts, yields, sinceYield, solved,
                   verifs, nuwSolved, bitsVars, fetchVars, capVars, otherVars, solves>>

-----------------------------------------------------------------------------
(* getChallenge and getSolvedChallenge of both services, over RpcService.call *)

\* maxAttempts: number = 10_000
DEFAULT_MAX_ATTEMPTS == 10000

DEFAULT_MEMORY_COST == 1024

DEFAULT_TIME_COST == 2

\* response.difficulty ?? 16
DEFAULT_DIFFICULTY == 16

\* x ?? d
OrElse(x, d) == IF IsSome(x) THEN Get(x) ELSE d

\* a catch clause that is entered for network-level failures only
fetchFailed_networkOnly(r) == r = "network_error"

\* RpcService.call throws (an RpcError, network-level or application-level):
\* the catch clause of getChallenge is entered
fetchFailed(r) == r # "ok"

\* the TransactionChallenge getChallenge builds from the response
transactionChallengeOf(r) ==
    [challenge_id |-> r.challenge_id,
     nonce        |-> r.nonce,
     difficulty   |-> OrElse(r.difficulty, DEFAULT_DIFFICULTY),
     memory_cost  |-> OrElse(r.memory_cost, DEFAULT_MEMORY_COST),
     time_cost    |-> OrElse(r.time_cost, DEFAULT_TIME_COST),
     expires_at   |-> r.expires_at]

\* getSolvedChallenge up to the await of RpcService.call inside getChallenge
getSolvedChallenge_call ==
    /\ mode = "getSolved" /\ pc = "fetch"
    /\ pc' = "fetching"
    /\ fetches' = fetches + 1
    /\ UNCHANGED <<envVars, argVars, entryNow, salt, counter, attempts, yields, sinceYield, outcome, solved,
                   batchVars, solves, bitsVars, capVars, otherVars, mode, rpc, response>>

\* ChallengeService: RpcService.call settles; getChallenge returns or throws, and
\* getSolvedChallenge calls solveChallenge with the default maxAttempts
getChallenge_settled ==
    /\ mode = "getSolved" /\ svc = "pow" /\ pc = "fetching"
    /\ IF fetchFailed(rpc)
       THEN Throw("FETCH_FAILED") /\ UNCHANGED <<challenge, maxAttempts>>
       ELSE /\ challenge' = transactionChallengeOf(response)
            /\ maxAttempts' = DEFAULT_MAX_ATTEMPTS
            /\ pc' = "call"
            /\ UNCHANGED outcome
    /\ Elapsed
    /\ UNCHANGED <<hashOracle, subtle, svc, nuwChallenge, entryNow, salt, counter, attempts, yields, sinceYield,
                   solved, batchVars, solves, bitsVars, fetchVars, capVars, otherVars>>

\* NuwChallengeService: the same, the response being returned as it is
nuw_getChallenge_settled ==
    /\ mode = "getSolved" /\ svc = "nuw" /\ pc = "fetching"
    /\ IF fetchFailed(rpc)
       THEN Throw("FETCH_FAILED") /\ UNCHANGED nuwChallenge
       ELSE /\ nuwChallenge' = response
            /\ pc' = "call"
            /\ UNCHANGED outcome
    /\ Elapsed
    /\ UNCHANGED <<hashOracle, subtle, svc, challenge, maxAttempts, entryNow, salt, counter,
                   attempts, yields, sinceYield, solved, batchVars, solves, bitsVars, fetchVars, capVars, otherVars>>

-----------------------------------------------------------------------------
(* Specification Spec: one call of solveChallenge or getSolvedChallenge *)

MaxAttempts == 3

OracleLen == 3

ExpiresAt == 1

\* enough attempts to reach the first yield of the loop
LongAttempts == 12

GoodNonce == [i \in 1..64 |-> i % 16]

NonceSamples ==
    { GoodNonce,
      SubSeq(GoodNonce, 1, 62),            \* 31 bytes
      GoodNonce \o <<0, 1>>,               \* 33 bytes
      SubSeq(GoodNonce, 1, 63),            \* an odd number of digits
      GoodNonce \o <<0>>,                  \* 65 digits
      [i \in 1..64 |-> IF i = 2 THEN NonHex ELSE i % 16],   \* 64 characters, one no hex digit
      <<>> }

DifficultySamples == {0, 8, 13}

Oracles == [1..OracleLen -> 0..Len(HashSamples)]

MerkleTask(root, leaf, proof, index) ==
    [root |-> root, leaf |-> leaf, proof |-> proof, index |-> index]

NoNuwChallenge ==
    [challenge_id |-> "n0", challenge_type |-> "none", fee_discount_percent |-> 0,
     expires_at |-> 0, argon2_params |-> None, signature_batch |-> None,
     zk_proof |-> None, merkle_proofs |-> None]

NoChallenge ==
    [challenge_id |-> "c0", nonce |-> <<>>, difficulty |-> 0,
     memory_cost |-> 1024, time_cost |-> 2, expires_at |-> 0]

\* the locals of a call that has not started
FreshCall ==
    /\ entryNow = None
    /\ salt = <<>>
    /\ counter = 0
    /\ attempts = 0
    /\ yields = 0
    /\ sinceYield = 0
    /\ verifs = 0
    /\ idx = 0
    /\ results = <<>>
    /\ outcome = "none"
    /\ solved = None
    /\ nuwSolved = None
    /\ solves = 0

\* solveChallenge is called directly
NoFetch ==
    /\ mode = "solve"
    /\ rpc = "ok"
    /\ response = <<>>
    /\ fetches = 0

\* the module just loaded
\* sendTransaction not called
NoSend ==
    /\ txPc = "none"
    /\ sendIn = [kind |-> "none"]
    /\ sends = 0
    /\ sentChallenge = None
    /\ txOutcome = [threw |-> "none"]

\* RpcService.call not called on its own
NoRpc ==
    /\ rpcIn = [kind |-> "none"]
    /\ rpcOut = None

\* no second call of solveChallenge
NoSecondCall ==
    /\ firstRun = None
    /\ parked = None

IdleOther ==
    /\ feeDiscounts = NUW_FEE_DISCOUNTS
    /\ NoRpc
    /\ NoSend
    /\ NoSecondCall

\* the WasmService just constructed, getAvailableTypes not called
IdleTypes ==
    /\ wasmModule = "null"
    /\ wasmStatus = "initializing"
    /\ typeCalls = <<>>

IdleCall ==
    /\ now = 0
    /\ hashOracle = [i \in 1..OracleLen |-> 0]
    /\ subtle = "ok"
    /\ svc = "none"
    /\ challenge = NoChallenge
    /\ nuwChallenge = NoNuwChallenge
    /\ maxAttempts = 0
    /\ pc = "done"
    /\ FreshCall
    /\ NoFetch
    /\ IdleTypes

IdleMerkle ==
    /\ mkTask = MerkleTask(<<>>, <<>>, <<>>, 0)
    /\ mkRes = None

IdleBits ==
    /\ hlzHash = <<>>
    /\ hlzBits = 0
    /\ hlzRes = None
    /\ IdleMerkle

InitPow ==
    /\ svc = "pow"
    /\ now \in 0..MaxNow
    /\ hashOracle \in Oracles
    /\ subtle = "ok"
    /\ \E n \in NonceSamples, d \in DifficultySamples :
         challenge = [challenge_id |-> "c1", nonce |-> n, difficulty |-> d,
                      memory_cost |-> 1024, time_cost |-> 2, expires_at |-> ExpiresAt]
    /\ nuwChallenge = NoNuwChallenge
    /\ maxAttempts \in 0..MaxAttempts \cup {LongAttempts}
    /\ pc = "call"
    /\ FreshCall
    /\ NoFetch
    /\ IdleBits
    /\ IdleTypes
    /\ IdleOther

(* The NuwChallenge samples *)

MaxBatch == 2

MaxTasks == 2

NuwTypes == {"argon2_pow", "signature_batch", "zk_verify", "pq_assist", "merkle_verify"}

\* a challenge_type outside the enum, as a server may send it
UnknownType == "ai_inference"

\* a nonce of 31 bytes
ShortNonce == SubSeq(GoodNonce, 1, 62)

Argon2Samples ==
    {[nonce |-> GoodNonce, difficulty |-> d, memory_cost |-> 1024, time_cost |-> 2] :
        d \in {0, 8}}
    \cup {[nonce |-> ShortNonce, difficulty |-> 0, memory_cost |-> 1024, time_cost |-> 2]}

\* argon2id as the NUW samples see it: it throws at once, never passes 8 bits,
\* passes at every counter, or passes first at counter OracleLen - 1
NuwOracles ==
    { [i \in 1..OracleLen |-> 0],
      [i \in 1..OracleLen |-> 1],
      [i \in 1..OracleLen |-> 2],
      [i \in 1..OracleLen |-> IF i = OracleLen THEN 2 ELSE 1] }

HexOf(bytes) == bytesToHex(bytes)

SigItem(tx, msg, sig, key, alg) ==
    [tx_id |-> tx, message |-> msg, signature |-> sig, public_key |-> key, algorithm |-> alg]

SigSamples ==
    { SigItem("txGood", HexOf(MsgA), HexOf(SigA), HexOf(KeyA), "ed25519"),
      SigItem("txForged", HexOf(<<9, 9, 9>>), HexOf(SigA), HexOf(KeyA), "ed25519"),
      SigItem("txDilithium", HexOf(MsgA), HexOf(SigA), HexOf(KeyA), "dilithium2"),
      SigItem("txShortKey", HexOf(MsgA), HexOf(SigA), HexOf(Tail(KeyA)), "ed25519"),
      SigItem("txNoMessage", Undefined, HexOf(SigA), HexOf(KeyA), "ed25519") }

SeqsUpTo(S, n) == UNION {[1..k -> S] : k \in 0..n}

Batches == SeqsUpTo(SigSamples, MaxBatch)

ZkSamples ==
    { [proof_id |-> id, proof_type |-> "halo2", proof |-> pr, public_inputs |-> kv[1],
       verification_key |-> kv[2]] :
          id \in {"zk1", "zk2"}, pr \in {<<>>, <<1, 2>>},
          kv \in {<<<<>>, <<>>>>, <<<<<<5>>>>, <<7>>>>} }

LeafA == [i \in 1..32 |-> 1]

SiblingA == [i \in 1..32 |-> 2]

MerkleSamples ==
    { MerkleTask(HexOf(sha256(LeafA \o SiblingA)), HexOf(LeafA), <<HexOf(SiblingA)>>, 0),
      MerkleTask(HexOf(sha256(LeafA \o SiblingA)), HexOf(LeafA), <<HexOf(SiblingA)>>, 1),
      MerkleTask(HexOf(LeafA), HexOf(LeafA), <<>>, 5),
      MerkleTask(HexOf(LeafA), HexOf(LeafA \o <<1>>), <<HexOf(SiblingA)>>, 1) }

TaskLists == SeqsUpTo(MerkleSamples, MaxTasks)

\* a payload field that challenge_type does not select: absent or populated
OtherArgon2 ==
    {None} \cup {Some(CHOOSE x \in Argon2Samples : x.difficulty = 0 /\ x.nonce = GoodNonce)}

OtherBatch == {None, Some(<<SigItem("txGood", HexOf(MsgA), HexOf(SigA), HexOf(KeyA), "ed25519")>>)}

OtherZk == {None, Some(CHOOSE z \in ZkSamples : z.proof_id = "zk1" /\ z.proof = <<>> /\ z.verification_key = <<>>)}

OtherMerkle == {None, Some(<<MerkleTask(HexOf(LeafA), HexOf(LeafA), <<>>, 5)>>)}

\* the three other payload fields of an Argon2 challenge: all absent or all populated
OtherNoneOrAll ==
    {o \in OtherBatch \X OtherZk \X OtherMerkle : IsSome(o[1]) = IsSome(o[2]) /\ IsSome(o[2]) = IsSome(o[3])}

NuwChallengeOf(type, a, b, z, m) ==
    [challenge_id |-> "n1", challenge_type |-> type, fee_discount_percent |-> 25,
     expires_at |-> ExpiresAt, argon2_params |-> a, signature_batch |-> b,
     zk_proof |-> z, merkle_proofs |-> m]

\* the payload challenge_type selects ranges over all its samples, the others over
\* absent and one sample
NuwChallenges ==
    UNION {
      {NuwChallengeOf(t, a, o[1], o[2], o[3]) :
          t \in {"argon2_pow", "pq_assist"},
          a \in {None} \cup {Some(x) : x \in Argon2Samples},
          o \in OtherNoneOrAll},
      {NuwChallengeOf("signature_batch", a, b, z, m) :
          a \in OtherArgon2,
          b \in {None} \cup {Some(x) : x \in Batches},
          z \in OtherZk, m \in OtherMerkle},
      {NuwChallengeOf("zk_verify", a, b, z, m) :
          a \in OtherArgon2, b \in OtherBatch,
          z \in {None} \cup {Some(x) : x \in ZkSamples},
          m \in OtherMerkle},
      {NuwChallengeOf("merkle_verify", a, b, z, m) :
          a \in OtherArgon2, b \in OtherBatch, z \in OtherZk,
          m \in {None} \cup {Some(x) : x \in TaskLists}},
      {NuwChallengeOf(UnknownType, a, b, z, m) :
          a \in OtherArgon2, b \in OtherBatch, z \in OtherZk, m \in OtherMerkle} }

UsesArgon2(c) == solverFor(c.challenge_type) = "solveArgon2" /\ IsSome(c.argon2_params)

InitNuw ==
    /\ svc = "nuw"
    /\ now \in 0..MaxNow
    /\ nuwChallenge \in NuwChallenges
    /\ hashOracle \in (IF ~UsesArgon2(nuwChallenge) THEN {[i \in 1..OracleLen |-> 0]}
                       ELSE IF IsSome(nuwChallenge.signature_batch)
                       THEN NuwOracles \ {[i \in 1..OracleLen |-> 1]}
                       ELSE NuwOracles)
    /\ subtle \in (IF nuwChallenge.challenge_type = "signature_batch"
                   THEN {"ok", "unsupported", "verify_throws"} ELSE {"ok"})
    /\ challenge = NoChallenge
    /\ maxAttempts = 0
    /\ pc = "call"
    /\ FreshCall
    /\ NoFetch
    /\ IdleBits
    /\ IdleTypes
    /\ IdleOther

(* The getSolvedChallenge samples *)

RpcOutcomes == {"ok", "network_error", "rejected"}

\* what get_transaction_challenge returns: difficulty and the costs are optional
PowResponses ==
    {[challenge_id |-> id, nonce |-> n, difficulty |-> d, memory_cost |-> m[1],
      time_cost |-> m[2], expires_at |-> ExpiresAt] :
        id \in {"c1", "c2"}, n \in {GoodNonce, ShortNonce},
        d \in {None, Some(0), Some(8)}, m \in {<<None, None>>, <<Some(2048), Some(3)>>}}

WithId(c, id) == [c EXCEPT !.challenge_id = id]

\* what get_nuw_challenge returns: one challenge of each type, one with its
\* payload missing and one of a type the client does not know
NuwResponses ==
    {WithId(c, id) :
        id \in {"n1", "n2"},
        c \in { NuwChallengeOf("argon2_pow", Some(CHOOSE x \in Argon2Samples :
                                   x.difficulty = 0 /\ x.nonce = GoodNonce), None, None, None),
                NuwChallengeOf("pq_assist", Some(CHOOSE x \in Argon2Samples :
                                   x.difficulty = 8 /\ x.nonce = GoodNonce), None, None, None),
                NuwChallengeOf("signature_batch", None,
                    Some(<<SigItem("txGood", HexOf(MsgA), HexOf(SigA), HexOf(KeyA), "ed25519"),
                           SigItem("txForged", HexOf(<<9, 9, 9>>), HexOf(SigA), HexOf(KeyA),
                                   "ed25519")>>), None, None),
                NuwChallengeOf("signature_batch", None, None, None, None),
                NuwChallengeOf("zk_verify", None, None,
                    Some(CHOOSE z \in ZkSamples : z.proof_id = "zk2" /\ z.proof = <<1, 2>> /\ z.verification_key = <<>>), None),
                NuwChallengeOf("merkle_verify", None, None, None,
                    Some(<<MerkleTask(HexOf(LeafA), HexOf(LeafA), <<>>, 5)>>)),
                NuwChallengeOf(UnknownType, None, None, None, None) }}

\* no counter passes the difficulty and argon2id never throws: the search runs
\* to its last attempt
LongSearch(oracle, difficulty) ==
    \A i \in 1..Len(oracle) :
        oracle[i] # 0 /\ ~hasLeadingZeros(hexToBytes(HashSamples[oracle[i]]), difficulty)

\* a call of getSolvedChallenge of either service; a search that runs to its last
\* attempt is started for one response and one time only
InitFetch ==
    /\ mode = "getSolved"
    /\ svc \in {"pow", "nuw"}
    /\ rpc \in RpcOutcomes
    /\ response \in (IF svc = "pow" THEN PowResponses ELSE NuwResponses)
    /\ now \in 0..MaxNow
    /\ hashOracle \in
         (IF svc = "pow"
          THEN {o \in NuwOracles :
                   LongSearch(o, OrElse(response.difficulty, DEFAULT_DIFFICULTY))
                       => /\ response.challenge_id = "c1" /\ response.nonce = GoodNonce
                          /\ response.memory_cost = None /\ now = 0 /\ rpc = "ok"}
          ELSE IF ~UsesArgon2(response) THEN {[i \in 1..OracleLen |-> 0]}
          ELSE {o \in NuwOracles :
                   LongSearch(o, Get(response.argon2_params).difficulty)
                       => response.challenge_id = "n1" /\ now = 0 /\ rpc = "ok"})
    /\ subtle = "ok"
    /\ fetches = 0
    /\ challenge = NoChallenge
    /\ nuwChallenge = NoNuwChallenge
    /\ maxAttempts = 0
    /\ pc = "fetch"
    /\ FreshCall
    /\ IdleBits
    /\ IdleTypes
    /\ IdleOther

NextFetch ==
    \/ getSolvedChallenge_call
    \/ getChallenge_settled
    \/ nuw_getChallenge_settled

NextPow ==
    \/ solveChallenge_enter
    \/ solveChallenge_loop
    \/ solveChallenge_hashed
    \/ solveChallenge_resumed

NextNuw ==
    \/ nuw_solveChallenge_enter
    \/ solveArgon2_loop
    \/ solveArgon2_hashed
    \/ solveArgon2_resumed
    \/ solveSignatureBatch_loop
    \/ solveSignatureBatch_verified
    \/ solveSignatureBatch_resumed
    \/ solveMerkleVerify_loop
    \/ solveMerkleVerify_verified

\* ChallengeService.solveChallenge alone
SpecPow == InitPow /\ [][NextPow]_vars

\* the event loop runs every continuation that is ready
FairSpecPow == SpecPow /\ WF_vars(NextPow)

\* NuwChallengeService.solveChallenge alone
SpecNuw == InitNuw /\ [][NextNuw]_vars

\* getSolvedChallenge of either service
SpecFetch == InitFetch /\ [][NextFetch \/ NextPow \/ NextNuw]_vars

Init == InitPow \/ InitNuw \/ InitFetch

Next == NextPow \/ NextNuw \/ NextFetch

\* a call of either service
Spec == Init /\ [][Next]_vars

-----------------------------------------------------------------------------
(* Properties of solveChallenge *)

\* the challenge's expires_at, whichever service is called
ExpiresAtOfCall == IF svc = "pow" THEN challenge.expires_at ELSE nuwChallenge.expires_at

Entered == IsSome(entryNow)

NoWorkDone == attempts = 0 /\ verifs = 0 /\ yields = 0

\* C1: a call entered at a time now >= expires_at fails with EXPIRED, and it has
\* made no hash attempt, no verification and no yield, whatever else is wrong
\* with the challenge.
C1_ExpiredFromExpiresAt ==
    (Entered /\ Get(entryNow) >= ExpiresAtOfCall)
        => (pc = "done" /\ outcome = "EXPIRED" /\ NoWorkDone)

\* bit k of a byte array, the most significant bit of byte 0 being bit 0
BitAtMSB(bytes, k) == (bytes[(k \div 8) + 1] \div Pow2(7 - (k % 8))) % 2

\* the first n bits are all zero
ZeroPrefix(bytes, n) == \A k \in 0..(n - 1) : BitAtMSB(bytes, k) = 0

\* what the hash primitive does for counter c
OutcomeAt(c) == hashOracle[(c % Len(hashOracle)) + 1]

PassesAt(c, difficulty) ==
    /\ OutcomeAt(c) # 0
    /\ ZeroPrefix(hexToBytes(HashSamples[OutcomeAt(c)]), difficulty)

RECURSIVE DivPow16(_, _)
DivPow16(n, k) == IF k = 0 THEN n ELSE DivPow16(n \div 16, k - 1)

\* the 16 hex digits of c, most significant first
HexBE16(c) == [i \in 1..16 |-> DivPow16(c, 16 - i) % 16]

\* C2: every hash attempt of ChallengeService.solveChallenge is for the counter
\* that equals the number of attempts made before it (0, 1, 2, ... each once), and
\* a returned solution is the 16-digit big-endian hex of the least counter below
\* maxAttempts whose digest passes for the difficulty, with that counter's digest
\* as its hash.
C2_LeastCounter ==
    svc = "pow" =>
        /\ pc = "hashing" => counter = attempts - 1
        /\ outcome = "solution" =>
             /\ IsSome(solved)
             /\ counter = attempts - 1
             /\ counter \in 0..(maxAttempts - 1)
             /\ PassesAt(counter, challenge.difficulty)
             /\ \A k \in 0..(counter - 1) : ~PassesAt(k, challenge.difficulty)
             /\ Len(Get(solved).solution) = 16
             /\ Get(solved).solution = HexBE16(counter)
             /\ Get(solved).hash = HashSamples[OutcomeAt(counter)]
             /\ ZeroPrefix(hexToBytes(Get(solved).hash), challenge.difficulty)

C2_Witness ==
    /\ svc = "pow" /\ outcome = "solution"
    /\ counter = 2 /\ challenge.difficulty = 8 /\ attempts = 3
    /\ IsSome(solved) /\ Get(solved).solution[16] = 2

PowOutcomes == {"solution", "EXPIRED", "INVALID", "WASM_FAILED", "SOLVE_FAILED"}

NeverPasses == \A k \in 0..(maxAttempts - 1) : OutcomeAt(k) # 0 /\ ~PassesAt(k, challenge.difficulty)

C3_Safe ==
    svc = "pow" =>
        /\ attempts <= maxAttempts
        /\ (pc = "done") = (outcome # "none")
        /\ pc = "done" => outcome \in PowOutcomes
        /\ (outcome = "solution") = IsSome(solved)
        /\ (pc = "done" /\ NeverPasses /\ outcome \notin {"EXPIRED", "INVALID"})
               => (outcome = "SOLVE_FAILED" /\ attempts = maxAttempts)

\* C3: ChallengeService.solveChallenge makes at most maxAttempts hash attempts and
\* always ends, in exactly one of solution, EXPIRED, INVALID, WASM_FAILED and
\* SOLVE_FAILED; when no counter below maxAttempts passes and the primitive never
\* throws, a search that started ends with SOLVE_FAILED after maxAttempts attempts.
C3_Terminates == [](C3_Safe) /\ <>(pc = "done")

C3_Witness ==
    /\ svc = "pow" /\ outcome = "SOLVE_FAILED"
    /\ maxAttempts = LongAttempts /\ attempts = LongAttempts /\ yields = 1

Unexpired == Entered /\ Get(entryNow) < ExpiresAtOfCall

\* the nonce is not the hex encoding of exactly 32 bytes
MalformedNonce(n) == ~(Len(n) = 64 /\ \A i \in 1..64 : n[i] # NonHex)

\* C11: an unexpired call of ChallengeService.solveChallenge whose nonce is not
\* the hex encoding of exactly 32 bytes (too short, too long, empty, an odd
\* number of digits) fails with INVALID before any hash attempt.
C11_MalformedNonceInvalid ==
    (svc = "pow" /\ Unexpired /\ MalformedNonce(challenge.nonce))
        => (pc = "done" /\ outcome = "INVALID" /\ attempts = 0)

\* the payload that challenge_type selects is absent, or is an empty list
PayloadMissing(c) ==
    \/ c.challenge_type \in {"argon2_pow", "pq_assist"} /\ c.argon2_params = None
    \/ c.challenge_type = "zk_verify" /\ c.zk_proof = None
    \/ c.challenge_type = "signature_batch" /\ c.signature_batch \in {None, Some(<<>>)}
    \/ c.challenge_type = "merkle_verify" /\ c.merkle_proofs \in {None, Some(<<>>)}

\* C4: an unexpired NuwChallenge whose own payload is absent (or an empty list,
\* for the two list payloads) fails with INVALID before any hash attempt,
\* verification or yield, whichever other payloads are populated.
C4_MissingPayloadInvalid ==
    (svc = "nuw" /\ Unexpired /\ PayloadMissing(nuwChallenge))
        => (pc = "done" /\ outcome = "INVALID" /\ NoWorkDone)

C4_Witness ==
    /\ svc = "nuw" /\ Unexpired /\ outcome = "INVALID"
    /\ nuwChallenge.challenge_type = "signature_batch"
    /\ nuwChallenge.signature_batch = Some(<<>>)
    /\ IsSome(nuwChallenge.argon2_params) /\ IsSome(nuwChallenge.merkle_proofs)

\* the result payloads a solution populates
Populated(sol) ==
    {f \in {"argon2_solution", "signature_results", "zk_result", "merkle_results"} : IsSome(sol[f])}

ResultFieldOf(type) ==
    CASE type \in {"argon2_pow", "pq_assist"} -> "argon2_solution"
      [] type = "signature_batch"             -> "signature_results"
      [] type = "zk_verify"                   -> "zk_result"
      [] type = "merkle_verify"               -> "merkle_results"

\* C5: the solver is chosen by challenge_type alone: a returned solution populates
\* exactly the one result payload of its challenge's type, and an unexpired call
\* with a type outside the five fails with UNSUPPORTED_TYPE.
C5_DispatchOnType ==
    svc = "nuw" =>
        /\ outcome = "solution" =>
             /\ IsSome(nuwSolved)
             /\ nuwChallenge.challenge_type \in NuwTypes
             /\ Populated(Get(nuwSolved)) = {ResultFieldOf(nuwChallenge.challenge_type)}
        /\ (Unexpired /\ nuwChallenge.challenge_type \notin NuwTypes)
             => (pc = "done" /\ outcome = "UNSUPPORTED_TYPE" /\ NoWorkDone)

C5_Witness ==
    /\ svc = "nuw" /\ outcome = "solution"
    /\ nuwChallenge.challenge_type = "pq_assist"
    /\ IsSome(nuwChallenge.signature_batch) /\ IsSome(nuwChallenge.zk_proof)
    /\ Populated(Get(nuwSolved)) = {"argon2_solution"}

\* what Ed25519 says of an item taken alone; an item that cannot be decoded or
\* verified counts as not valid
ItemValid(sig) ==
    /\ sig.message # Undefined /\ sig.signature # Undefined /\ sig.public_key # Undefined
    /\ sig.algorithm = "ed25519"
    /\ subtle = "ok"
    /\ <<nuw_hexToBytes(sig.public_key), nuw_hexToBytes(sig.signature),
         nuw_hexToBytes(sig.message)>> \in ValidSignatures

InSigBatch ==
    /\ svc = "nuw" /\ nuwChallenge.challenge_type = "signature_batch"
    /\ Unexpired
    /\ ~PayloadMissing(nuwChallenge)

\* C6: solving a non-empty signature batch of n items never fails; the results
\* gathered so far are those of the first items in order, each with its item's
\* tx_id and the verdict on that item alone (not valid when decoding or verifying
\* it throws), and the solution returned carries exactly n of them.
C6_BatchResults ==
    InSigBatch =>
        LET batch == Get(nuwChallenge.signature_batch) IN
        /\ outcome \in {"none", "solution"}
        /\ Len(results) <= Len(batch)
        /\ \A i \in 1..Len(results) :
             results[i] = [tx_id |-> batch[i].tx_id, valid |-> ItemValid(batch[i])]
        /\ outcome = "solution" =>
             /\ Len(results) = Len(batch)
             /\ Get(nuwSolved).signature_results = Some(results)

C6_Witness ==
    /\ InSigBatch /\ outcome = "solution" /\ subtle = "ok"
    /\ results = <<[tx_id |-> "txNoMessage", valid |-> FALSE], [tx_id |-> "txGood", valid |-> TRUE]>>

\* C7: a result is valid only for an ed25519 item on which the platform primitive
\* answered true; dilithium2 items, and every item when the primitive is
\* unsupported or throws, get valid = false, and verifySignature never makes the
\* call fail.
C7_ValidOnlyEd25519 ==
    InSigBatch =>
        LET batch == Get(nuwChallenge.signature_batch) IN
        /\ outcome \in {"none", "solution"}
        /\ \A i \in 1..Len(results) :
             /\ results[i].valid =>
                  /\ batch[i].algorithm = "ed25519"
                  /\ subtle = "ok"
                  /\ subtleVerify(nuw_hexToBytes(batch[i].public_key),
                                  nuw_hexToBytes(batch[i].signature),
                                  nuw_hexToBytes(batch[i].message))
             /\ batch[i].algorithm = "dilithium2" => ~results[i].valid
             /\ subtle # "ok" => ~results[i].valid

C7_Witness ==
    /\ InSigBatch /\ outcome = "solution" /\ subtle = "unsupported"
    /\ Len(results) = 2
    /\ results[1].tx_id = "txDilithium" /\ results[2].tx_id = "txGood"


\* the attempt for counter k has been made and has settled
Settled(k) == k < attempts /\ ~(pc = "hashing" /\ counter = k)

\* C13: once the hash primitive has thrown on the attempt for counter k,
\* ChallengeService.solveChallenge has ended with WASM_FAILED, it has made no
\* attempt for counter k + 1 and it has returned no solution.
C13_PrimitiveErrorIsWasmFailed ==
    svc = "pow" =>
        \A k \in 0..(attempts - 1) :
            (Settled(k) /\ OutcomeAt(k) = 0) =>
                /\ pc = "done" /\ outcome = "WASM_FAILED"
                /\ attempts = k + 1
                /\ solved = None

C13_Witness ==
    /\ svc = "pow" /\ outcome = "WASM_FAILED"
    /\ attempts = 2 /\ OutcomeAt(0) = 1 /\ OutcomeAt(1) = 0 /\ OutcomeAt(2) = 2

UnexpiredArgon2 ==
    /\ svc = "nuw" /\ Unexpired
    /\ nuwChallenge.challenge_type \in {"argon2_pow", "pq_assist"}
    /\ IsSome(nuwChallenge.argon2_params)

\* C12: an unexpired ARGON2_POW or PQ_ASSIST challenge whose argon2_params.nonce
\* is not the hex encoding of exactly 32 bytes fails with INVALID before any hash
\* attempt.
C12_NuwMalformedNonceInvalid ==
    (UnexpiredArgon2 /\ MalformedNonce(Get(nuwChallenge.argon2_params).nonce))
        => (pc = "done" /\ outcome = "INVALID" /\ attempts = 0)

\* C14: in the NUW Argon2 path a call that ended because the hash primitive
\* threw reports a kind other than SOLVE_FAILED, the kind of an exhausted search.
C14_NuwPrimitiveErrorDistinct ==
    (UnexpiredArgon2 /\ pc = "done" /\ attempts > 0 /\ OutcomeAt(attempts - 1) = 0)
        => outcome # "SOLVE_FAILED"

\* the challenge_id of the solution returned
SolutionId == IF svc = "pow" THEN Get(solved).challenge_id ELSE Get(nuwSolved).challenge_id

\* C15: every solution returned, by solveChallenge of either service for every
\* challenge type and by getSolvedChallenge, carries the challenge_id of the
\* challenge that was solved (for getSolvedChallenge: of the challenge fetched).
C15_SolutionCarriesChallengeId ==
    outcome = "solution" =>
        /\ svc = "pow" => IsSome(solved) /\ SolutionId = challenge.challenge_id
        /\ svc = "nuw" => IsSome(nuwSolved) /\ SolutionId = nuwChallenge.challenge_id
        /\ mode = "getSolved" => SolutionId = response.challenge_id

C15_Witness ==
    /\ outcome = "solution" /\ mode = "getSolved" /\ svc = "nuw"
    /\ nuwChallenge.challenge_type = "merkle_verify"
    /\ Get(nuwSolved).challenge_id = "n2"

ErrorKinds ==
    {"FETCH_FAILED", "EXPIRED", "INVALID", "SOLVE_FAILED", "WASM_FAILED", "UNSUPPORTED_TYPE"}

C16_OneFetchOneSolve ==
    mode = "getSolved" =>
        /\ fetches <= 1 /\ solves <= 1
        /\ fetches = 0 <=> pc = "fetch"
        /\ solves = 1 => rpc = "ok"
        /\ solves = 0 => NoWorkDone
        /\ (rpc # "ok" /\ pc \notin {"fetch", "fetching"})
               => (pc = "done" /\ outcome = "FETCH_FAILED" /\ solves = 0)

\* nothing is done after a challenge error
C16_Terminal ==
    outcome \in ErrorKinds =>
        /\ outcome' = outcome
        /\ fetches' = fetches /\ solves' = solves
        /\ attempts' = attempts /\ verifs' = verifs /\ yields' = yields

\* C16: getSolvedChallenge of either service issues exactly one fetch and starts
\* at most one solve; when the fetch fails, at network or at application level,
\* the call fails with FETCH_FAILED and no solve starts; and once the call has
\* failed with a challenge error no fetch, hash attempt or verification follows.
C16_ErrorsAreTerminal == [](C16_OneFetchOneSolve) /\ [][C16_Terminal]_vars

C16_Witness ==
    /\ mode = "getSolved" /\ rpc = "rejected" /\ outcome = "FETCH_FAILED"
    /\ fetches = 1 /\ solves = 0

\* C17: both PoW search loops yield every 10 hash attempts: at no point of a run
\* have more than 10 argon2id invocations been started since the last yield, or
\* since the start of the search when there was no yield yet.
C17_YieldEveryTen == sinceYield <= 10

\* the counters of one period of the primitive at which a search for difficulty d
\* stops: the primitive throws, or the digest passes
Argon2Stops(d) == {k \in 0..(Len(hashOracle) - 1) : OutcomeAt(k) = 0 \/ PassesAt(k, d)}

\* what the counter search over argon2_params comes to, whatever challenge_type
\* says: the outcome, the number of hash attempts and the argon2_solution
Argon2Search(params) ==
    IF params = None
    THEN [outcome |-> "INVALID", attempts |-> 0, argon2_solution |-> None]
    ELSE LET stops == Argon2Stops(Get(params).difficulty) IN
         IF stops = {}
         THEN [outcome |-> "SOLVE_FAILED", attempts |-> NUW_MAX_ATTEMPTS,
               argon2_solution |-> None]
         ELSE LET k == CHOOSE x \in stops : \A y \in stops : x <= y IN
              IF OutcomeAt(k) = 0
              THEN [outcome |-> "SOLVE_FAILED", attempts |-> k + 1, argon2_solution |-> None]
              ELSE [outcome |-> "solution", attempts |-> k + 1,
                    argon2_solution |-> Some(HexBE16(k))]

\* the call has ended as the counter search over argon2_params ends
EndsAsArgon2Search ==
    LET e == Argon2Search(nuwChallenge.argon2_params) IN
        /\ outcome = e.outcome
        /\ attempts = e.attempts
        /\ outcome = "solution" => Get(nuwSolved).argon2_solution = e.argon2_solution

\* C18: an unexpired PQ_ASSIST challenge is solved as the same challenge with
\* challenge_type ARGON2_POW is: both run the counter search over argon2_params,
\* one hash attempt per counter from 0, and end with the same argon2_solution or
\* the same error after the same number of attempts; the result is a function of
\* argon2_params and the primitive alone.
C18_PqAssistAsArgon2 ==
    (svc = "nuw" /\ nuwChallenge.challenge_type \in {"argon2_pow", "pq_assist"} /\ Unexpired) =>
        /\ pc = "hashing" => counter = attempts - 1
        /\ pc = "done" => EndsAsArgon2Search

C18_Witness ==
    /\ svc = "nuw" /\ nuwChallenge.challenge_type = "pq_assist" /\ Unexpired
    /\ outcome = "solution" /\ attempts = OracleLen
    /\ Get(nuwSolved).argon2_solution = Some(HexBE16(OracleLen - 1))

\* C19: an unexpired ZK_VERIFY challenge with a zk_proof is solved at once with
\* zk_result {proof_id: zk_proof.proof_id, valid: true}, whatever the proof bytes,
\* the public inputs and the verification key are, and without any verification,
\* hash attempt or yield.
C19_ZkPlaceholderValid ==
    (svc = "nuw" /\ nuwChallenge.challenge_type = "zk_verify" /\ Unexpired
         /\ IsSome(nuwChallenge.zk_proof)) =>
        /\ pc = "done" /\ outcome = "solution"
        /\ Get(nuwSolved).zk_result =
               Some([proof_id |-> Get(nuwChallenge.zk_proof).proof_id, valid |-> TRUE])
        /\ NoWorkDone

C19_Witness ==
    /\ svc = "nuw" /\ nuwChallenge.challenge_type = "zk_verify" /\ Unexpired
    /\ IsSome(nuwChallenge.zk_proof)
    /\ Get(nuwChallenge.zk_proof).proof = <<>>
    /\ Get(nuwChallenge.zk_proof).verification_key = <<7>>
    /\ Get(nuwSolved).zk_result = Some([proof_id |-> "zk2", valid |-> TRUE])

-----------------------------------------------------------------------------
(* WasmService and NuwChallengeService.getAvailableTypes *)

\* the calls of getAvailableTypes that are followed
MaxTypeCalls == 4

\* WasmService.isReady
isReady == wasmModule # "null"

\* initializeWasm, started by the constructor, settles: the module is loaded and
\* the status says so; or loading fails and the module stays null; or
\* get_build_info throws after the module was stored
initializeWasm_settled ==
    /\ wasmStatus = "initializing"
    /\ \/ wasmModule' = "loaded" /\ wasmStatus' = "initialized"
       \/ wasmModule' = "null" /\ wasmStatus' = "failed"
       \/ wasmModule' = "loaded" /\ wasmStatus' = "failed"
    /\ UNCHANGED <<envVars, callVars, bitsVars, fetchVars, typeCalls, otherVars>>

\* what the call of isReady inside getAvailableTypes does: it returns the flag,
\* or it throws (the case of the catch clause)
readinessCheck(throws) == IF throws THEN "throws" ELSE IF isReady THEN "true" ELSE "false"

\* getAvailableTypes without its try and catch
getAvailableTypes_uncaught(check) ==
    [rejected |-> check = "throws",
     types    |-> IF check = "true" THEN <<"argon2_pow", "signature_batch", "merkle_verify">>
                  ELSE <<"argon2_pow">>]

\* how the promise of getAvailableTypes settles
getAvailableTypes(check) ==
    [rejected |-> FALSE,
     types    |-> IF check = "true" THEN <<"argon2_pow", "signature_batch", "merkle_verify">>
                  ELSE <<"argon2_pow">>]

\* one call of getAvailableTypes: it has no await, it runs to its end
getAvailableTypes_call ==
    /\ Len(typeCalls) < MaxTypeCalls
    /\ \E throws \in BOOLEAN :
         LET check == readinessCheck(throws) IN
         typeCalls' = Append(typeCalls, [check |-> check] @@ getAvailableTypes(check))
    /\ UNCHANGED <<envVars, callVars, bitsVars, fetchVars, wasmModule, wasmStatus, otherVars>>

InitTypes ==
    /\ IdleCall
    /\ IdleOther
    /\ IdleBits

NextTypes ==
    \/ initializeWasm_settled
    \/ getAvailableTypes_call

\* the calls of getAvailableTypes while the WASM module loads
SpecTypes == InitTypes /\ [][NextTypes]_vars

\* the types of a list
TypesIn(list) == {list[i] : i \in 1..Len(list)}

\* C20: every call of getAvailableTypes resolves, also when the readiness check
\* throws; its list holds ARGON2_POW whatever the readiness; it holds
\* SIGNATURE_BATCH and MERKLE_VERIFY exactly when WasmService.isReady returned
\* true; it never holds ZK_VERIFY or PQ_ASSIST.
C20_AvailableTypes ==
    \A i \in 1..Len(typeCalls) :
        LET call == typeCalls[i]
            T    == TypesIn(call.types)
        IN  /\ ~call.rejected
            /\ "argon2_pow" \in T
            /\ ("signature_batch" \in T) = (call.check = "true")
            /\ ("merkle_verify" \in T) = (call.check = "true")
            /\ "zk_verify" \notin T /\ "pq_assist" \notin T
            /\ T \subseteq NuwTypes

C20_Witness ==
    /\ Len(typeCalls) = 3
    /\ typeCalls[1].check = "false" /\ Len(typeCalls[1].types) = 1
    /\ typeCalls[2].check = "throws" /\ Len(typeCalls[2].types) = 1
    /\ typeCalls[3].check = "true" /\ Len(typeCalls[3].types) = 3
    /\ wasmStatus = "failed"

-----------------------------------------------------------------------------

\* the table as the module defines it: nothing for ARGON2_POW, more for the others
C21_Table ==
    /\ feeDiscounts = NUW_FEE_DISCOUNTS
    /\ DOMAIN feeDiscounts = NuwTypes
    /\ feeDiscounts["argon2_pow"] = 0
    /\ \A t \in NuwTypes \ {"argon2_pow"} : feeDiscounts[t] > feeDiscounts["argon2_pow"]

\* no step assigns the table or the challenge's fee_discount_percent
C21_Kept ==
    /\ feeDiscounts' = feeDiscounts
    /\ nuwChallenge'.fee_discount_percent = nuwChallenge.fee_discount_percent

\* C21: in the fee-discount table ARGON2_POW has discount 0 and each of the four
\* other types a strictly larger one; no operation changes the table, and solving
\* leaves the challenge's fee_discount_percent as the server gave it.
C21_FeeDiscounts == [](C21_Table) /\ [][C21_Kept]_vars

C21_Witness ==
    /\ svc = "nuw" /\ outcome = "solution"
    /\ nuwChallenge.challenge_type = "argon2_pow"
    /\ nuwChallenge.fee_discount_percent = 25
    /\ feeDiscounts[nuwChallenge.challenge_type] = 0
    /\ feeDiscounts["zk_verify"] = 50

-----------------------------------------------------------------------------
(* RpcService.call *)

\* new RpcError(message, code, isNetworkError, isCorsError, requiresChallenge)
RpcError(code, isNetworkError, isCorsError, requiresChallenge) ==
    [threw |-> "RpcError", code |-> code, isNetworkError |-> isNetworkError,
     isCorsError |-> isCorsError, requiresChallenge |-> requiresChallenge]

\* the code of an RpcError built without one
DEFAULT_RPC_CODE == -1

\* handleHttpError; a TimeoutError has no status, so none of the tests on it holds
handleHttpError(error) ==
    IF error.kind = "HttpErrorResponse" /\ error.status = 0
    THEN IF error.messageSaysCors \/ error.onLine
         THEN RpcError(0, TRUE, TRUE, FALSE)
         ELSE RpcError(0, TRUE, FALSE, FALSE)
    ELSE IF error.kind = "HttpErrorResponse"
    THEN RpcError(error.status, FALSE, FALSE, FALSE)
    ELSE RpcError(DEFAULT_RPC_CODE, FALSE, FALSE, FALSE)

\* a test that takes every truthy requires_challenge
requiresChallengeOf_truthy(error) ==
    IsSome(error.data) /\ Get(error.data).requires_challenge \in {"true", "'true'", "1"}

\* response.error.data?.requires_challenge === true
requiresChallengeOf(error) ==
    IsSome(error.data) /\ Get(error.data).requires_challenge = "true"

\* RpcService.call from the settling of http.post on: what it returns or throws
rpcCall(t) ==
    CASE t.kind = "emits" ->
           IF ~IsSome(t.body) THEN RpcError(DEFAULT_RPC_CODE, FALSE, FALSE, FALSE)
           ELSE LET resp == Get(t.body) IN
                IF IsSome(resp.error)
                THEN RpcError(Get(resp.error).code, FALSE, FALSE,
                              requiresChallengeOf(Get(resp.error)))
                ELSE IF ~IsSome(resp.result)
                THEN RpcError(DEFAULT_RPC_CODE, FALSE, FALSE, FALSE)
                ELSE [threw |-> "nothing", result |-> Get(resp.result)]
      [] t.kind \in {"HttpErrorResponse", "TimeoutError"} -> handleHttpError(t)
      [] OTHER -> RpcError(DEFAULT_RPC_CODE, TRUE, FALSE, FALSE)

\* RpcService.call settles
rpcCall_settled ==
    /\ rpcIn.kind # "none" /\ rpcOut = None
    /\ rpcOut' = Some(rpcCall(rpcIn))
    /\ UNCHANGED <<envVars, callVars, bitsVars, fetchVars, capVars, feeDiscounts, rpcIn, txVars, concVars>>

\* the error member of a response: absent or null, or an object whose data is
\* absent or null, or an object with or without requires_challenge
ErrorSamples ==
    {None} \cup
    {Some([code |-> c, data |-> d]) :
        c \in {-32000, 429},
        d \in {None} \cup {Some([requires_challenge |-> v]) :
                              v \in {"undefined", "true", "false", "'true'", "1"}}}

BodySamples ==
    {None} \cup {Some([result |-> r, error |-> e]) : r \in {None, Some("r")}, e \in ErrorSamples}

\* the request is answered, or fails with a status, or times out, or the stream
\* of http.post completes without a value
TransportSamples ==
    {[kind |-> "emits", body |-> b] : b \in BodySamples}
    \cup {[kind |-> "HttpErrorResponse", status |-> st, messageSaysCors |-> m, onLine |-> o,
           body |-> b] :
             st \in {0, 302, 404, 500}, m \in BOOLEAN, o \in BOOLEAN,
             b \in {None, Some([result |-> None,
                                error |-> Some([code |-> 429,
                                   data |-> Some([requires_challenge |-> "true"])])])}}
    \cup {[kind |-> "TimeoutError"], [kind |-> "EmptyError"]}

InitRpc ==
    /\ IdleCall
    /\ IdleBits
    /\ feeDiscounts = NUW_FEE_DISCOUNTS
    /\ rpcIn \in TransportSamples
    /\ rpcOut = None
    /\ NoSend
    /\ NoSecondCall

NextRpc == rpcCall_settled

\* one call of RpcService.call
SpecRpc == InitRpc /\ [][NextRpc]_vars

\* http.post delivered a response with an error object
CarriedError == rpcIn.kind = "emits" /\ IsSome(rpcIn.body) /\ IsSome(Get(rpcIn.body).error)

\* C23: every failure of RpcService.call is an RpcError; its requiresChallenge is
\* true exactly when the response delivered to call carried an error object whose
\* data.requires_challenge is the boolean true; an error carried in a response
\* never has isNetworkError; and no RpcError has isNetworkError and
\* requiresChallenge together.
C23_RpcErrorClasses ==
    IsSome(rpcOut) =>
        LET out == Get(rpcOut) IN
        /\ out.threw \in {"nothing", "RpcError"}
        /\ out.threw = "nothing" =>
               (rpcIn.kind = "emits" /\ IsSome(rpcIn.body) /\ ~CarriedError)
        /\ out.threw = "RpcError" =>
             /\ out.requiresChallenge =
                  (/\ CarriedError
                   /\ IsSome(Get(Get(rpcIn.body).error).data)
                   /\ Get(Get(Get(rpcIn.body).error).data).requires_challenge = "true")
             /\ CarriedError => ~out.isNetworkError
             /\ ~(out.isNetworkError /\ out.requiresChallenge)
             /\ out.isCorsError => out.isNetworkError

C23_Witness ==
    /\ IsSome(rpcOut) /\ CarriedError
    /\ Get(rpcOut).threw = "RpcError" /\ Get(rpcOut).requiresChallenge
    /\ Get(rpcOut).code = 429 /\ IsSome(Get(rpcIn.body).result)

-----------------------------------------------------------------------------
(* TransactionService.sendTransaction *)

\* an await that never throws
awaitReturns_always(o) == TRUE

\* await this.challenge.getSolvedChallenge(nodeUrl) returns; otherwise it throws
\* into the catch clause
awaitReturns(o) == o = "solution"

\* the catch clause: what sendTransaction throws for an RpcError
sendError(error) ==
    IF error.isCorsError THEN [threw |-> "Error", message |-> "cors"]
    ELSE IF error.isNetworkError THEN [threw |-> "Error", message |-> "network"]
    ELSE IF error.requiresChallenge THEN [threw |-> "Error", message |-> "requires_challenge"]
    ELSE [threw |-> "Error", message |-> "failed"]

\* getSolvedChallenge returned: send_transaction is issued with the solution
sendTransaction_solved ==
    /\ txPc = "awaitChallenge" /\ pc = "done" /\ awaitReturns(outcome)
    /\ txPc' = "sending"
    /\ sends' = sends + 1
    /\ sentChallenge' = solved
    /\ UNCHANGED <<envVars, callVars, bitsVars, fetchVars, capVars, feeDiscounts, rpcVars, concVars,
                   sendIn, txOutcome>>

\* getSolvedChallenge threw: a ChallengeError is no RpcError, the catch clause
\* throws it again
sendTransaction_unsolved ==
    /\ txPc = "awaitChallenge" /\ pc = "done" /\ ~awaitReturns(outcome)
    /\ txPc' = "done"
    /\ txOutcome' = [threw |-> "ChallengeError", code |-> outcome]
    /\ UNCHANGED <<envVars, callVars, bitsVars, fetchVars, capVars, feeDiscounts, rpcVars, concVars,
                   sendIn, sends, sentChallenge>>

\* RpcService.call settles for send_transaction: the result is returned, or the
\* catch clause throws an Error for the RpcError
sendTransaction_settled ==
    /\ txPc = "sending"
    /\ txPc' = "done"
    /\ LET out == rpcCall(sendIn) IN
       txOutcome' = IF out.threw = "nothing" THEN out ELSE sendError(out)
    /\ UNCHANGED <<envVars, callVars, bitsVars, fetchVars, capVars, feeDiscounts, rpcVars, concVars,
                   sendIn, sends, sentChallenge>>

\* an error object of a response, with or without the requires_challenge flag
ErrorBody(code, flag) ==
    Some([result |-> None,
          error  |-> Some([code |-> code, data |-> Some([requires_challenge |-> flag])])])

\* how the node answers send_transaction
SendSamples ==
    { [kind |-> "emits", body |-> Some([result |-> Some("r"), error |-> None])],
      [kind |-> "emits", body |-> ErrorBody(429, "true")],
      [kind |-> "emits", body |-> ErrorBody(-32000, "false")],
      [kind |-> "HttpErrorResponse", status |-> 0, messageSaysCors |-> TRUE, onLine |-> TRUE,
       body |-> None],
      [kind |-> "HttpErrorResponse", status |-> 0, messageSaysCors |-> FALSE, onLine |-> FALSE,
       body |-> None],
      [kind |-> "TimeoutError"] }

\* a call of sendTransaction, up to the await of RpcService.call inside getChallenge;
\* a search that runs to its last attempt is started for one response only
InitSend ==
    /\ mode = "getSolved"
    /\ svc = "pow"
    /\ rpc \in RpcOutcomes
    /\ response \in {r \in PowResponses : r.challenge_id = "c1" /\ r.memory_cost = None}
    /\ now \in 0..MaxNow
    /\ sendIn \in SendSamples
    /\ hashOracle \in {o \in NuwOracles :
                          LongSearch(o, OrElse(response.difficulty, DEFAULT_DIFFICULTY))
                              => /\ response.nonce = GoodNonce /\ response.difficulty = None
                                 /\ now = 0 /\ rpc = "ok" /\ sendIn.kind = "TimeoutError"}
    /\ subtle = "ok"
    /\ fetches = 0
    /\ challenge = NoChallenge
    /\ nuwChallenge = NoNuwChallenge
    /\ maxAttempts = 0
    /\ pc = "fetch"
    /\ FreshCall
    /\ IdleBits
    /\ IdleTypes
    /\ feeDiscounts = NUW_FEE_DISCOUNTS
    /\ NoRpc
    /\ txPc = "awaitChallenge"
    /\ sends = 0
    /\ sentChallenge = None
    /\ txOutcome = [threw |-> "none"]
    /\ NoSecondCall

NextSend ==
    \/ getSolvedChallenge_call
    \/ getChallenge_settled
    \/ NextPow
    \/ sendTransaction_solved
    \/ sendTransaction_unsolved
    \/ sendTransaction_settled

\* one call of sendTransaction
SpecSend == InitSend /\ [][NextSend]_vars

\* the event loop runs every continuation that is ready
FairSpecSend == SpecSend /\ WF_vars(NextSend)

\* send_transaction was rejected with the requires_challenge flag
RejectedForChallenge ==
    /\ txPc = "done" /\ sends >= 1
    /\ sendIn.kind = "emits" /\ IsSome(Get(sendIn.body).error)
    /\ requiresChallengeOf(Get(Get(sendIn.body).error))

\* C22: when send_transaction is rejected with the requires_challenge flag, the
\* client fetches a new challenge, solves it and submits the request again with
\* the new solution.
C22_ResubmitOnChallenge ==
    RejectedForChallenge ~> (fetches >= 2 /\ solves >= 2 /\ sends >= 2)

\* C27: sendTransaction issues send_transaction at most once, only after the one
\* challenge fetched in the same call was solved, with that solution as the
\* challenge member of the request; when the fetch or the solve fails,
\* send_transaction is not issued and the ChallengeError reaches the caller with
\* its code.
C27_SendAfterSolve ==
    txPc # "none" =>
        /\ sends <= 1
        /\ sends = 1 =>
             /\ fetches = 1 /\ solves = 1 /\ rpc = "ok"
             /\ pc = "done" /\ outcome = "solution"
             /\ IsSome(solved) /\ sentChallenge = solved
             /\ Get(sentChallenge).challenge_id = response.challenge_id
        /\ sends = 0 => sentChallenge = None
        /\ (pc = "done" /\ outcome # "solution") =>
             /\ sends = 0
             /\ txPc = "done" => txOutcome = [threw |-> "ChallengeError", code |-> outcome]
        /\ txOutcome.threw = "ChallengeError" => (sends = 0 /\ txOutcome.code \in ErrorKinds)
        /\ txOutcome.threw \in {"nothing", "Error"} => sends = 1

C27_Witness ==
    /\ txPc = "done" /\ sends = 1 /\ txOutcome.threw = "nothing"
    /\ Get(sentChallenge).challenge_id = "c1" /\ attempts = OracleLen

-----------------------------------------------------------------------------
(* A second call of solveChallenge on the same challenge *)

\* the calls of solveChallenge on one challenge that are followed
MaxSolves == 2

\* how the call that ended ended, with the challenge as it then is
RunOf ==
    [outcome |-> outcome, solved |-> solved, nuwSolved |-> nuwSolved, attempts |-> attempts,
     verifs |-> verifs, challenge |-> challenge, nuwChallenge |-> nuwChallenge]

\* the caller passes the same challenge object to solveChallenge again: the new
\* call has its own locals (salt and counter are assigned when the search starts)
solveChallenge_again ==
    /\ mode = "solve" /\ svc \in {"pow", "nuw"} /\ pc = "done"
    /\ firstRun = None \/ solves < MaxSolves
    /\ firstRun' = IF firstRun = None THEN Some(RunOf) ELSE firstRun
    /\ pc' = "call"
    /\ entryNow' = None
    /\ attempts' = 0 /\ yields' = 0 /\ sinceYield' = 0 /\ verifs' = 0
    /\ idx' = 0 /\ results' = <<>>
    /\ outcome' = "none" /\ solved' = None /\ nuwSolved' = None
    /\ UNCHANGED <<envVars, argVars, salt, counter, solves, bitsVars, fetchVars, capVars,
                   feeDiscounts, rpcVars, txVars, parked>>

\* the first call is made at time 0
InitAgain ==
    /\ InitPow \/ InitNuw
    /\ now = 0
    /\ hashOracle \in NuwOracles \cup {[i \in 1..OracleLen |-> 0]}

NextAgain == NextPow \/ NextNuw \/ solveChallenge_again

\* calls of solveChallenge one after the other on the same challenge
SpecAgain == InitAgain /\ [][NextAgain]_vars

\* the nonce the search hashes with
NonceOfCall == IF svc = "pow" THEN challenge.nonce ELSE Get(nuwChallenge.argon2_params).nonce

\* no step of a solve assigns the challenge or a member of it
C24_Frame == challenge' = challenge /\ nuwChallenge' = nuwChallenge

\* a later solve of the same challenge works on the data the first one was given
C24_Again ==
    IsSome(firstRun) =>
        /\ Get(firstRun).challenge = challenge
        /\ Get(firstRun).nuwChallenge = nuwChallenge
        /\ (pc \in {"loop", "hashing"} /\ attempts = 0) =>
               (counter = 0 /\ salt = hexToBytes(NonceOfCall))
        /\ pc = "hashing" => counter = attempts - 1
        /\ (pc = "done" /\ outcome # "EXPIRED") =>
             /\ outcome = Get(firstRun).outcome
             /\ solved = Get(firstRun).solved
             /\ nuwSolved = Get(firstRun).nuwSolved
             /\ attempts = Get(firstRun).attempts
             /\ verifs = Get(firstRun).verifs

\* C24: solving never mutates its challenge: no step of solveChallenge of either
\* service changes a field or a payload of the challenge, whether the call returns
\* or fails, so a second solve of the same challenge starts again from counter 0
\* on the original data and, unless the challenge expired meanwhile, ends as the
\* first did.
C24_ChallengeUnchanged == [](C24_Again) /\ [][C24_Frame]_vars

C24_Witness ==
    /\ IsSome(firstRun) /\ svc = "pow" /\ pc = "done"
    /\ outcome = "solution" /\ attempts = OracleLen
    /\ solved = Get(firstRun).solved

-----------------------------------------------------------------------------
(* Two calls of solveChallenge in flight *)

\* what belongs to the running call: its arguments, its locals, its position, the
\* primitive on its challenge, and how its first run ended
Locals ==
    [svc |-> svc, challenge |-> challenge, nuwChallenge |-> nuwChallenge,
     maxAttempts |-> maxAttempts, hashOracle |-> hashOracle, pc |-> pc,
     entryNow |-> entryNow, salt |-> salt, counter |-> counter, attempts |-> attempts,
     yields |-> yields, sinceYield |-> sinceYield, verifs |-> verifs, idx |-> idx,
     results |-> results, outcome |-> outcome, solved |-> solved, nuwSolved |-> nuwSolved,
     firstRun |-> firstRun]

\* a counter kept in the service: the call resumed goes on with the value the
\* other call left
resumed_sharedCounter(saved, running) == [saved EXCEPT !.counter = running.counter]

\* the continuation resumed finds its own arguments and locals
resumed(saved, running) == saved

\* the two calls run interleaved once each has run alone; before that a call is
\* left only before it starts or after it ended
MaySwitch ==
    \/ pc \in {"call", "done"}
    \/ IsSome(firstRun) /\ IsSome(Get(parked).firstRun)

\* the running call is suspended at its await and the event loop resumes the other
eventLoop_switch ==
    /\ mode = "solve" /\ IsSome(parked)
    /\ MaySwitch
    /\ Get(parked).pc # "done" \/ Get(parked).firstRun = None
    /\ parked' = Some(Locals)
    /\ \E next \in {resumed(Get(parked), Locals)} :
         /\ svc' = next.svc /\ challenge' = next.challenge
         /\ nuwChallenge' = next.nuwChallenge /\ maxAttempts' = next.maxAttempts
         /\ hashOracle' = next.hashOracle /\ pc' = next.pc /\ entryNow' = next.entryNow
         /\ salt' = next.salt /\ counter' = next.counter /\ attempts' = next.attempts
         /\ yields' = next.yields /\ sinceYield' = next.sinceYield /\ verifs' = next.verifs
         /\ idx' = next.idx /\ results' = next.results /\ outcome' = next.outcome
         /\ solved' = next.solved /\ nuwSolved' = next.nuwSolved
         /\ firstRun' = next.firstRun
    /\ UNCHANGED <<now, subtle, solves, bitsVars, fetchVars, capVars, feeDiscounts, rpcVars, txVars>>

\* the calls in flight: two searches of ChallengeService, one of them past its
\* first yield, a search and a signature batch of NuwChallengeService
PowCall(max, oracle) ==
    [svc |-> "pow",
     challenge |-> [challenge_id |-> "c1", nonce |-> GoodNonce, difficulty |-> 8,
                    memory_cost |-> 1024, time_cost |-> 2, expires_at |-> ExpiresAt],
     nuwChallenge |-> NoNuwChallenge, maxAttempts |-> max, hashOracle |-> oracle]

NuwCall(c, oracle) ==
    [svc |-> "nuw", challenge |-> NoChallenge, nuwChallenge |-> c, maxAttempts |-> 0,
     hashOracle |-> oracle]

ConcCalls ==
    { PowCall(MaxAttempts, [i \in 1..OracleLen |-> IF i = OracleLen THEN 2 ELSE 1]),
      PowCall(LongAttempts, [i \in 1..OracleLen |-> 1]),
      NuwCall(WithId(NuwChallengeOf("pq_assist",
                  Some(CHOOSE x \in Argon2Samples : x.difficulty = 8 /\ x.nonce = GoodNonce),
                  None, None, None), "n1"),
              [i \in 1..OracleLen |-> IF i = OracleLen THEN 2 ELSE 1]),
      NuwCall(WithId(NuwChallengeOf("signature_batch", None,
                  Some(<<SigItem("txGood", HexOf(MsgA), HexOf(SigA), HexOf(KeyA), "ed25519"),
                         SigItem("txForged", HexOf(<<9, 9, 9>>), HexOf(SigA), HexOf(KeyA),
                                 "ed25519")>>), None, None), "n2"),
              [i \in 1..OracleLen |-> 0]) }

\* a call that has not started
NotStarted(call) ==
    call @@ [pc |-> "call", entryNow |-> None, salt |-> <<>>, counter |-> 0, attempts |-> 0,
             yields |-> 0, sinceYield |-> 0, verifs |-> 0, idx |-> 0, results |-> <<>>,
             outcome |-> "none", solved |-> None, nuwSolved |-> None, firstRun |-> None]

InitConc ==
    /\ now = 0
    /\ subtle = "ok"
    /\ \E a \in ConcCalls, b \in ConcCalls :
         /\ svc = a.svc /\ challenge = a.challenge /\ nuwChallenge = a.nuwChallenge
         /\ maxAttempts = a.maxAttempts /\ hashOracle = a.hashOracle
         /\ parked = Some(NotStarted(b))
    /\ pc = "call"
    /\ FreshCall
    /\ NoFetch
    /\ IdleBits
    /\ IdleTypes
    /\ feeDiscounts = NUW_FEE_DISCOUNTS
    /\ NoRpc
    /\ NoSend
    /\ firstRun = None

NextConc ==
    \/ NextPow
    \/ nuw_solveChallenge_enter
    \/ solveArgon2_loop
    \/ solveArgon2_hashed
    \/ solveArgon2_resumed
    \/ solveSignatureBatch_loop
    \/ solveSignatureBatch_verified
    \/ solveSignatureBatch_resumed
    \/ solveChallenge_again
    \/ eventLoop_switch

\* two calls of solveChallenge, each run alone and then the two run interleaved
SpecConc == InitConc /\ [][NextConc]_vars

\* the call ended its interleaved run as it ended alone
EndedAsAlone(call) ==
    (IsSome(call.firstRun) /\ call.pc = "done" /\ call.outcome # "EXPIRED") =>
        LET alone == Get(call.firstRun) IN
        /\ call.outcome = alone.outcome
        /\ call.solved = alone.solved
        /\ call.nuwSolved = alone.nuwSolved
        /\ call.attempts = alone.attempts
        /\ call.verifs = alone.verifs
        /\ call.challenge = alone.challenge
        /\ call.nuwChallenge = alone.nuwChallenge

\* C25: two calls of solveChallenge, on the same or on different challenges and
\* in either service, that run interleaved at their awaits and yields share no
\* mutable state: in every interleaving each call ends with the outcome, the
\* solution and the number of attempts and verifications it has when run alone
\* (unless its challenge expired before it started).
C25_NoSharedState ==
    mode = "solve" /\ IsSome(parked) => EndedAsAlone(Locals) /\ EndedAsAlone(Get(parked))

C25_Witness ==
    /\ IsSome(parked) /\ IsSome(firstRun) /\ pc = "done" /\ svc = "pow"
    /\ outcome = "solution" /\ attempts = OracleLen
    /\ Get(parked).svc = "nuw" /\ Get(parked).pc = "sigyielding"
    /\ IsSome(Get(parked).firstRun) /\ Get(parked).verifs = 1

\* C26: whenever solveChallenge of either service returns a solution, the
\* challenge is still alive at the moment of return: now < expires_at, also when
\* the clock advanced while the search or the batch was running.
C26_AliveAtReturn ==
    (svc \in {"pow", "nuw"} /\ outcome = "solution") => now < ExpiresAtOfCall

\* C28: the solution NuwChallengeService.solveChallenge returns carries the
\* challenge_type of the challenge that was solved, for each of the five types.
C28_SolutionTypeIsChallengeType ==
    (svc = "nuw" /\ outcome = "solution") =>
        Get(nuwSolved).challenge_type = nuwChallenge.challenge_type

\* the difficulty and the nonce of the Argon2 search of the call
SearchParams ==
    IF svc = "pow" THEN [difficulty |-> challenge.difficulty, nonce |-> challenge.nonce]
    ELSE [difficulty |-> Get(nuwChallenge.argon2_params).difficulty,
          nonce |-> Get(nuwChallenge.argon2_params).nonce]

\* the call is an Argon2 search of either service, with the attempts of the defaults
IsArgon2Search ==
    \/ svc = "pow" /\ maxAttempts = DEFAULT_MAX_ATTEMPTS
    \/ /\ svc = "nuw" /\ solverFor(nuwChallenge.challenge_type) = "solveArgon2"
       /\ IsSome(nuwChallenge.argon2_params)

\* the solution string the call returned
SolutionOfCall == IF svc = "pow" THEN Get(solved).solution ELSE Get(Get(nuwSolved).argon2_solution)

\* the call failed because the loop test failed, not inside the loop
FailedExhausted ==
    /\ pc = "done" /\ outcome = "SOLVE_FAILED"
    /\ counter = (IF svc = "pow" THEN maxAttempts ELSE NUW_MAX_ATTEMPTS)

\* C29: on an unexpired challenge with a 32-byte nonce the Argon2 search of
\* NuwChallengeService and ChallengeService.solveChallenge with the default
\* maxAttempts agree: each returns the solution of the counter search for the
\* difficulty (the same string for the same challenge and primitive), and each
\* fails for exhausted attempts exactly when that search finds no counter, which
\* for ChallengeService is exactly when it fails with SOLVE_FAILED.
C29_SearchesAgree ==
    (svc \in {"pow", "nuw"} /\ IsArgon2Search /\ Unexpired /\ pc = "done"
         /\ ~MalformedNonce(SearchParams.nonce)) =>
        LET search == Argon2Search(Some(SearchParams)) IN
        /\ (outcome = "solution") = (search.outcome = "solution")
        /\ outcome = "solution" => Some(SolutionOfCall) = search.argon2_solution
        /\ FailedExhausted = (Argon2Stops(SearchParams.difficulty) = {})
        /\ svc = "pow" => (outcome = "SOLVE_FAILED") = FailedExhausted
        /\ attempts = search.attempts

C29_Witness ==
    /\ svc = "pow" /\ maxAttempts = DEFAULT_MAX_ATTEMPTS /\ Unexpired
    /\ outcome = "SOLVE_FAILED" /\ attempts = DEFAULT_MAX_ATTEMPTS
    /\ Argon2Stops(challenge.difficulty) = {}

InMerkleVerify ==
    /\ svc = "nuw" /\ nuwChallenge.challenge_type = "merkle_verify"
    /\ Unexpired
    /\ ~PayloadMissing(nuwChallenge)

\* C9: solving a non-empty list of Merkle tasks never fails, whatever the tasks
\* hold: the results gathered so far are one per task in input order, each with
\* its task's index, and the solution returned carries one result per task.
C9_MerkleNeverThrows ==
    InMerkleVerify =>
        LET tasks == Get(nuwChallenge.merkle_proofs) IN
        /\ outcome \in {"none", "solution"}
        /\ Len(results) <= Len(tasks)
        /\ \A i \in 1..Len(results) :
             results[i].index = tasks[i].index /\ results[i].valid \in BOOLEAN
        /\ outcome = "solution" =>
             /\ Len(results) = Len(tasks)
             /\ Get(nuwSolved).merkle_results = Some(results)

-----------------------------------------------------------------------------
(* Specification SpecBits: hasLeadingZeros applied to 32-byte digests *)

\* values of the one byte of a sample digest that is chosen freely
ByteSamples == {0, 1, 2, 4, 8, 16, 32, 64, 128, 255}

\* zero before position p (1-based), v at p, t after it
SampleDigest(p, v, t) ==
    [i \in 1..DEFAULT_HASH_LENGTH |-> IF i < p THEN 0 ELSE IF i = p THEN v ELSE t]

DigestSamples ==
    {SampleDigest(p, v, t) : p \in 1..DEFAULT_HASH_LENGTH, v \in ByteSamples, t \in {0, 255}}

InitBits ==
    /\ IdleCall
    /\ IdleOther
    /\ IdleMerkle
    /\ hlzHash \in DigestSamples
    /\ hlzBits \in 0..(8 * DEFAULT_HASH_LENGTH)
    /\ hlzRes = None

CallHasLeadingZeros ==
    /\ hlzRes = None
    /\ hlzRes' = Some(<<hasLeadingZeros(hlzHash, hlzBits), nuw_hasLeadingZeros(hlzHash, hlzBits)>>)
    /\ UNCHANGED <<hlzHash, hlzBits, mkTask, mkRes, envVars, callVars, fetchVars, capVars, otherVars>>

NextBits == CallHasLeadingZeros

SpecBits == InitBits /\ [][NextBits]_vars

\* C10: for every 32-byte digest and every requiredBits in 0..256, both copies of
\* hasLeadingZeros return true iff the first requiredBits bits of the digest, the
\* most significant bit of byte 0 first, are all zero.
C10_LeadingZeroBits ==
    IsSome(hlzRes) =>
        /\ Len(hlzHash) = 32 /\ hlzBits \in 0..256
        /\ Get(hlzRes)[1] = ZeroPrefix(hlzHash, hlzBits)
        /\ Get(hlzRes)[2] = ZeroPrefix(hlzHash, hlzBits)

C10_Witness ==
    /\ hlzRes = Some(<<TRUE, TRUE>>)
    /\ hlzBits = 11 /\ hlzHash[2] = 16 /\ hlzHash[3] = 255

-----------------------------------------------------------------------------
(* Specification SpecMerkle: verifyMerkleProof applied to proofs of up to *)
(* MaxProofLen siblings                                                   *)

MaxProofLen == 33

\* the largest index the model represents
MaxIndex == (Pow2(30) - 1) + Pow2(30)

IndexSamples == {0, 1, 2, 3, 5, 6, MaxIndex}

\* the i-th sibling (0-based) of the sample proofs
SiblingSample(i) == Array([k \in 1..32 |-> (3 * i + k) % 256])

ProofSample(n) == Array([i \in 1..n |-> HexOf(SiblingSample(i - 1))])

LeafSamples == {LeafA, SubSeq(LeafA, 1, 31), LeafA \o <<1>>}

RECURSIVE BitOf(_, _)
\* bit i of index: floor(index / 2^i) mod 2
BitOf(index, i) == IF i = 0 THEN index % 2 ELSE BitOf(index \div 2, i - 1)

RECURSIVE MerkleRoot(_, _, _, _)
\* the root of the path: H(sibling || current) where bit i of index is 1,
\* H(current || sibling) elsewhere, from step i on
MerkleRoot(current, proofHex, index, i) ==
    IF i >= Len(proofHex) THEN current
    ELSE LET sibling == nuw_hexToBytes(proofHex[i + 1])
             parent  == IF BitOf(index, i) = 1 THEN sha256(sibling \o current)
                                               ELSE sha256(current \o sibling)
         IN  IF Len(parent) = 0 THEN parent
             ELSE MerkleRoot(parent, proofHex, index, i + 1)

\* proofs of a few steps, and of maxLen - 1 and maxLen steps
ProofLengths(maxLen) == {0, 1, 2, 3, maxLen - 1, maxLen}

\* for each leaf, proof and index: the task whose root is the root of the path,
\* and the task whose root is LeafA
MerkleInputs(maxLen) ==
    UNION { { MerkleTask(HexOf(MerkleRoot(leaf, ProofSample(n), index, 0)),
                         HexOf(leaf), ProofSample(n), index),
              MerkleTask(HexOf(LeafA), HexOf(leaf), ProofSample(n), index) } :
            leaf \in LeafSamples, n \in ProofLengths(maxLen), index \in IndexSamples }

InitMerkle ==
    /\ IdleCall
    /\ IdleOther
    /\ hlzHash = <<>>
    /\ hlzBits = 0
    /\ hlzRes = None
    /\ mkTask \in MerkleInputs(MaxProofLen)
    /\ mkRes = None

CallVerifyMerkleProof ==
    /\ mkRes = None
    /\ LET t == mkTask IN
       mkRes' = Some(
           IF verifyMerkleProofThrows(t.root, t.leaf, t.proof, t.index)
           THEN [threw |-> TRUE, valid |-> FALSE]
           ELSE [threw |-> FALSE,
                 valid |-> verifyMerkleProof(t.root, t.leaf, t.proof, t.index)])
    /\ UNCHANGED <<mkTask, hlzHash, hlzBits, hlzRes, envVars, callVars, fetchVars, capVars, otherVars>>

NextMerkle == CallVerifyMerkleProof

SpecMerkle == InitMerkle /\ [][NextMerkle]_vars

\* every value of the task decodes to exactly 32 bytes
WellFormedTask(t) ==
    /\ Len(nuw_hexToBytes(t.root)) = 32
    /\ Len(nuw_hexToBytes(t.leaf)) = 32
    /\ \A i \in 1..Len(t.proof) : Len(nuw_hexToBytes(t.proof[i])) = 32

\* C8: for a task of 32-byte values, verifyMerkleProof returns true iff the fold
\* from the leaf, taking H(sibling || current) at step i when bit i of index is 1
\* and H(current || sibling) otherwise, ends at a value equal to root.
C8_FoldByIndexBits ==
    (IsSome(mkRes) /\ WellFormedTask(mkTask)) =>
        /\ ~Get(mkRes).threw
        /\ Get(mkRes).valid =
             (MerkleRoot(nuw_hexToBytes(mkTask.leaf), mkTask.proof, mkTask.index, 0)
                = nuw_hexToBytes(mkTask.root))


\* C30: at every step i of a call of verifyMerkleProof the bit that decides the
\* operand order, (index >> i) & 1, is bit i of the index, floor(index / 2^i)
\* mod 2, whatever the length of the proof, steps i >= 32 included.
C30_BitOfIndexAtEveryStep ==
    IsSome(mkRes) =>
        \A i \in 0..(Len(mkTask.proof) - 1) :
            isRightBit(mkTask.index, i) = BitOf(mkTask.index, i)

=============================================================================
